---- MODULE Spec2Model ----
(***************************************************************************)
(* A state-machine model of c2FmZQ: the server database (users, contact    *)
(* lists, albums, file-sets, blob reference counts), the encrypted object  *)
(* store's multi-record transactions, the command-line client's album and  *)
(* file operations, and the HTTP server's token check.                     *)
(***************************************************************************)
EXTENDS Integers, Sequences, FiniteSets, TLC

VARIABLES
    \* ---- server database (package database) ----
    ul,            \* users.dat: the user directory, a set of userList entries
    userFile,      \* home/<uid>/user.dat: uid -> User or NoFile
    contactList,   \* home/<uid>/contact-list.dat: uid -> ContactList or NoFile
    manifest,      \* home/<uid>/album-manifest.dat: uid -> AlbumManifest or NoFile
    gallery,       \* home/<uid>/gallery.dat: uid -> FileSet or NoFile
    trash,         \* home/<uid>/trash.dat: uid -> FileSet or NoFile
    albums,        \* home/<owner>/album/<albumID>.dat: albumID -> album or NoFile
    refcount,      \* blobs/refcount.dat: blob -> reference count
    blobsOnDisk,   \* blobs/<..>/<blobID>: the blob files present
    now,           \* nowInMS()
    registrations, \* number of AddUser calls (bounds the model)
    pc,            \* where the running DeleteUser call is
    duUser,        \* the argument of the running (or last) DeleteUser call
    retErr         \* what the last AddUser call returned ("" for nil)

dbVars == <<ul, userFile, contactList, manifest, gallery, trash, albums,
            refcount, blobsOnDisk, now, registrations, pc, duUser, retErr>>

VARIABLES
    \* ---- command-line client (package client) ----
    cAl,           \* AlbumList.Albums: albumID -> album
    cRemote,       \* AlbumList.RemoteAlbums: the album IDs the server knows
    cFS,           \* the client's file-sets: file name -> FileSet or NoFile
    cLocks,        \* the records of the client's store that are locked
    cLast,         \* the last command: its name, sources, and the error returned
    cOps           \* number of commands run (bounds the model)

clVars == <<cAl, cRemote, cFS, cLocks, cLast, cOps>>


\* The state the authentication wrapper reads and the request it serves.
VARIABLES auUsers, auReq, auSeq, auRevoked, auResponses
auVars == <<auUsers, auReq, auSeq, auRevoked, auResponses>>

\* The last request to the database: its arguments, and for a query what it
\* returned.
VARIABLES quLast
quVars == <<quLast>>

\* The master key of the process, the last record it encrypted with the
\* message it was given, the bit of the record that was flipped since (-1:
\* none), what Decrypt returned for it, the key file Save wrote, and what
\* Read returned for it.
VARIABLES mk, mkMsg, mkData, mkFlip, mkDec, mkFile, mkRead
mkVars == <<mk, mkMsg, mkData, mkFlip, mkDec, mkFile, mkRead>>

\* The call that is followed step by step (an AddContact or an AddUser of the
\* database, an addAlbum or a removeAlbum of the client): where it is, its
\* arguments, what it has read, and the error it returned.
VARIABLES acReq
acVars == <<acReq>>

otherVars == <<clVars, auVars, quVars, mkVars, acVars>>

-----------------------------------------------------------------------------
\* Bounds of the model.
NumUIDs == 3
MaxTime == 1
MaxRegistrations == 3
MaxRefs == 3
MaxFileRegistrations == 2
MaxDeletes == 1
NumProcs == 2
MaxTxns == 3
MaxCrashes == 1
MaxConcurrent == 2
NumClientAlbums == 2
NumClientFiles == 2
MaxClientOps == 3
MaxItems == 2
NumAuthUsers == 2
NumTokenKeys == 2
MaxTokens == 2
MaxRequests == 2
MaxClock == 10
NumSharingKeys == 2

\* Program constants.
MinUserID == 1000000
MaxInt32 == 2147483647

\* The numbers rand.Int(rand.Reader, MaxInt32 - 1000000) may draw: the model
\* keeps the lowest ones and the largest.
RandInts == (0 .. (NumUIDs - 1)) \cup {MaxInt32 - MinUserID - 1}

\* uid = bi.Int64() + 1000000
AllocUID(bi) == bi + MinUserID

UIDs == {AllocUID(bi) : bi \in RandInts}
Emails == {"alice", "bob", "carol"}
Times == 0 .. MaxTime
NumAlbums == 1
AlbumIDs == 1 .. NumAlbums
NumFiles == 2
FileNames == 1 .. NumFiles
NumContents == 1
Contents == 1 .. NumContents
\* The blob of an uploaded file's content, and the blob of its thumbnail.
FileBlob(c) == c
ThumbBlob(c) == NumContents + c
Blobs == 1 .. (2 * NumContents)
Procs == 1 .. NumProcs

NoFile == [nofile |-> TRUE]

EmptyFileSet == [Files |-> <<>>]
EmptyContactList == [Contacts |-> <<>>, In |-> {}, Deletes |-> <<>>]
EmptyManifest == [Albums |-> {}, Deletes |-> <<>>]

DeleteEventContact == "contact"
DeleteEventAlbum == "album"

GallerySet == "0"
TrashSet == "1"
AlbumSet == "2"

\* Remove key k from the map m (Go's delete(m, k): a no-op when k is absent).
MapDelete(m, k) == [x \in DOMAIN m \ {k} |-> m[x]]

\* m[k] = v (Go's map assignment: inserts or overwrites).
MapPut(m, k, v) == [x \in DOMAIN m \cup {k} |-> IF x = k THEN v ELSE m[x]]

\* The sequences that list every element of the finite set S exactly once.
Orders(S) ==
    {s \in [1 .. Cardinality(S) -> S] : \A i, j \in DOMAIN s : s[i] = s[j] => i = j}

-----------------------------------------------------------------------------
\* AddUser's scan of the directory for the email of the new user.
NeverExists(list, email) == FALSE

EmailExists(list, email) == \E i \in list : i.Email = email

\* AddUser creates a new user account for the given email; uid is the random
\* user ID the allocation loop draws.
AddUser(email, uid) ==
    /\ registrations < MaxRegistrations
    /\ registrations' = registrations + 1
    /\ IF EmailExists(ul, email)
       THEN \* os.ErrExist; the deferred commit rewrites the unchanged list
            /\ retErr' = "ErrExist"
            /\ UNCHANGED <<ul, userFile, contactList, manifest, gallery, trash>>
       ELSE /\ uid \notin {i.UserID : i \in ul}
            /\ LET tOK == trash[uid] = NoFile
                gOK == tOK /\ gallery[uid] = NoFile
                mOK == gOK /\ manifest[uid] = NoFile
                cOK == mOK /\ contactList[uid] = NoFile
               IN  /\ ul' = ul \cup {[UserID |-> uid, Email |-> email]}
                   /\ userFile' = [userFile EXCEPT ![uid] = [UserID |-> uid, Email |-> email]]
                   /\ trash' = IF tOK THEN [trash EXCEPT ![uid] = EmptyFileSet] ELSE trash
                   /\ gallery' = IF gOK THEN [gallery EXCEPT ![uid] = EmptyFileSet] ELSE gallery
                   /\ manifest' = IF mOK THEN [manifest EXCEPT ![uid] = EmptyManifest]
                                  ELSE manifest
                   /\ contactList' = IF cOK THEN [contactList EXCEPT ![uid] = EmptyContactList]
                                     ELSE contactList
                   /\ retErr' = IF cOK THEN "" ELSE "CreateEmptyFile"
    /\ UNCHANGED <<albums, refcount, blobsOnDisk, now, pc, duUser>>

\* UserByID: the User with the given ID, NoFile when user.dat is missing.
UserByID(id) == userFile[id]

\* User returns the User with the given email address, NoFile when there is none.
User(email) ==
    IF \E u \in ul : u.Email = email
    THEN UserByID((CHOOSE u \in ul : u.Email = email).UserID)
    ELSE NoFile

\* The effect of addContactToUser on the two opened contact lists.
addContactToUser(cl, user, contact) ==
    LET userContacts == cl[user.UserID]
        contactContacts == cl[contact.UserID]
        c == [UserID |-> contact.UserID, Email |-> contact.Email, DateModified |-> now]
    IN  [cl EXCEPT
            ![user.UserID] = [userContacts EXCEPT !.Contacts = MapPut(@, contact.UserID, c)],
            ![contact.UserID] = [contactContacts EXCEPT !.In = @ \cup {user.UserID}]]

\* AddContact adds the user with the given email address to user's contact list.
AddContact(user, contactEmail) ==
    LET c == User(contactEmail) IN
    /\ userFile[user.UserID] = user
    /\ c # NoFile
    /\ c.UserID # user.UserID
    /\ contactList[user.UserID] # NoFile
    /\ contactList[c.UserID] # NoFile
    /\ contactList' = addContactToUser(contactList, user, c)
    /\ UNCHANGED <<ul, userFile, manifest, gallery, trash, albums, refcount,
                   blobsOnDisk, now, registrations, pc, duUser, retErr>>

\* One iteration of the loop that starts the contact's log anew.
RemoveContactStepAnew(uc, user, uid) ==
    LET e1 == [File |-> user, Date |-> now, Type |-> DeleteEventContact]
        b == [uc EXCEPT ![uid].Contacts = MapDelete(@, user)]
    IN  [b EXCEPT ![uid].Deletes = <<e1>>]

\* One iteration of removeAllContacts' loop over uc, for the entry of uid.
RemoveContactStep(uc, user, uid) ==
    LET e1 == [File |-> user, Date |-> now, Type |-> DeleteEventContact]
        e2 == [File |-> uid, Date |-> now, Type |-> DeleteEventContact]
        \* Remove user from contact's list.
        a == [uc EXCEPT ![user].In = @ \ {uid}]
        b == [a EXCEPT ![uid].Contacts = MapDelete(@, user)]
        c == [b EXCEPT ![uid].Deletes = Append(@, e1)]
        \* Remove contact from user's list.
        d == [c EXCEPT ![uid].In = @ \ {user}]
        e == [d EXCEPT ![uid].Contacts = MapDelete(@, uid)]
    IN  [e EXCEPT ![user].Deletes = Append(@, e2)]

RECURSIVE RemoveContactLoop(_, _, _, _)
RemoveContactLoop(uc, user, order, i) ==
    IF i > Len(order) THEN uc
    ELSE RemoveContactLoop(RemoveContactStep(uc, user, order[i]), user, order, i + 1)

\* The record set of removeAllContacts: user, its contacts and the users
\* who have it in their list.
removeAllContactsUids(cl, user) ==
    {user} \cup DOMAIN cl[user].Contacts \cup cl[user].In

\* removeAllContacts fails when user's list, or the list of a peer, is missing.
removeAllContactsFails(cl, user) ==
    IF cl[user] = NoFile THEN TRUE
    ELSE \E uid \in removeAllContactsUids(cl, user) : cl[uid] = NoFile

\* The contact lists after removeAllContacts(user) ranged over uc in `order`.
removeAllContacts(cl, user, order) ==
    LET uids == removeAllContactsUids(cl, user)
        uc == [uid \in uids |-> cl[uid]]
        out == RemoveContactLoop(uc, user, order, 1)
    IN  [uid \in DOMAIN cl |-> IF uid \in uids THEN out[uid] ELSE cl[uid]]

-----------------------------------------------------------------------------
\* lookupContacts: the users of the directory among uids whose user.dat reads.
lookupContacts(uids) ==
    {[UserID |-> u.UserID, Email |-> UserByID(u.UserID).Email] :
        u \in {x \in ul : x.UserID \in uids /\ UserByID(x.UserID) # NoFile}}

\* The contact lists left as they are.
NoCrossContacts(cls, list) == cls

\* addCrossContacts adds the contacts of list to each other. Nothing is
\* written when one of the contact lists cannot be opened.
addCrossContacts(cls, list) ==
    LET ids == {c.UserID : c \in list}
        cross(c1) ==
            LET cl == cls[c1.UserID]
                new == {c2 \in list : c2.UserID # c1.UserID
                                      /\ c2.UserID \notin DOMAIN cl.Contacts}
            IN  [cl EXCEPT
                   !.Contacts = [x \in DOMAIN cl.Contacts \cup {c.UserID : c \in new} |->
                                   IF x \in DOMAIN cl.Contacts THEN cl.Contacts[x]
                                   ELSE [UserID |-> x,
                                         Email |-> (CHOOSE c \in new : c.UserID = x).Email,
                                         DateModified |-> now]],
                   !.In = @ \cup (ids \ {c1.UserID})]
    IN  IF \E id \in ids : cls[id] = NoFile
        THEN cls
        ELSE [uid \in DOMAIN cls |->
                IF uid \in ids
                THEN cross(CHOOSE c \in list : c.UserID = uid)
                ELSE cls[uid]]

\* The bits of an album's permissions string.
AllowAdd(p) == p[1] = 1
AllowShare(p) == p[2] = 1
AllowCopy(p) == p[3] = 1
NoPermissions == <<0, 0, 0, 0>>
Permissions == {<<a, s, c, 1>> : a \in {0, 1}, s \in {0, 1}, c \in {0, 1}}

\* The album delete event appended to a user's manifest.
AlbumDeleteEvent(aid) ==
    [File |-> 0, AlbumID |-> aid, Date |-> now, Type |-> DeleteEventAlbum]

\* The manifests with album aid removed from those of the users in uids.
DropAlbumRefs(mf, aid, uids) ==
    [u \in UIDs |->
        IF u \in uids /\ mf[u] # NoFile
        THEN [mf[u] EXCEPT !.Albums = @ \ {aid},
                           !.Deletes = Append(@, AlbumDeleteEvent(aid))]
        ELSE mf[u]]

\* AddAlbum creates an empty album owned by owner.
AddAlbum(owner, aid) ==
    /\ userFile[owner] # NoFile
    /\ manifest[owner] # NoFile
    /\ albums[aid] = NoFile
    /\ albums' = [albums EXCEPT ![aid] =
            [AlbumID |-> aid, OwnerID |-> owner, Members |-> {}, IsShared |-> FALSE,
             Permissions |-> NoPermissions, DateModified |-> now, Files |-> <<>>,
             SharingKeys |-> <<>>]]
    /\ manifest' = [manifest EXCEPT ![owner].Albums = @ \cup {aid}]
    /\ UNCHANGED <<ul, userFile, contactList, gallery, trash, refcount, blobsOnDisk,
                   now, registrations, pc, duUser, retErr>>

\* The sharing keys of an album once those of a share request are merged in.
MergeKeys(old, new) ==
    [m \in DOMAIN old \cup DOMAIN new |-> IF m \in DOMAIN new THEN new[m] ELSE old[m]]

\* Every user who holds the album may share it.
AnyoneMayShare(user, album) == TRUE

\* The owner may share the album; another member needs allowShare.
MayShare(user, album) == user = album.OwnerID \/ AllowShare(album.Permissions)

\* ShareAlbum: user shares album aid with members, giving each the album's
\* key wrapped for it; the owner also sets the permissions, another member
\* needs allowShare.
ShareAlbum(user, aid, members, perms, sharingKeys) ==
    LET album == albums[aid]
        all == album.Members \cup members \cup {album.OwnerID}
    IN
    /\ userFile[user] # NoFile
    /\ manifest[user] # NoFile
    /\ aid \in manifest[user].Albums
    /\ album # NoFile
    /\ MayShare(user, album)
    /\ \A m \in members : m \in {x.UserID : x \in ul} /\ manifest[m] # NoFile
    /\ albums' = [albums EXCEPT ![aid] =
            [album EXCEPT !.Members = all, !.IsShared = TRUE, !.DateModified = now,
                          !.Permissions = IF user = album.OwnerID THEN perms ELSE @,
                          !.SharingKeys = MergeKeys(@, sharingKeys)]]
    /\ manifest' = [u \in UIDs |->
            IF u \in members /\ u # album.OwnerID
            THEN [manifest[u] EXCEPT !.Albums = @ \cup {aid}]
            ELSE manifest[u]]
    /\ contactList' = addCrossContacts(contactList, lookupContacts(all))
    /\ UNCHANGED <<ul, userFile, gallery, trash, refcount, blobsOnDisk,
                   now, registrations, pc, duUser, retErr>>

-----------------------------------------------------------------------------
\* The number of references to blob b held by the entries of the file map fs.
RefsIn(fs, b) ==
    Cardinality({n \in DOMAIN fs : fs[n].StoreFile = b})
        + Cardinality({n \in DOMAIN fs : fs[n].StoreThumb = b})

\* incRefCount(StoreFile, delta) and incRefCount(StoreThumb, delta) for every
\* entry of fs.
incRefCount(rc, fs, delta) == [b \in Blobs |-> rc[b] + delta * RefsIn(fs, b)]

\* The blob files left once the blobs whose count reached zero are unlinked.
Unlink(disk, rc) == {b \in disk : rc[b] # 0}

\* The file-set (set, albumID) as user opens it, NoFile when it is missing or
\* user has no reference to the album.
FileSetOf(user, set, aid) ==
    IF set = GallerySet THEN gallery[user]
    ELSE IF set = TrashSet THEN trash[user]
    ELSE IF manifest[user] # NoFile /\ aid \in manifest[user].Albums THEN albums[aid]
    ELSE NoFile

\* The file-set variables with the files of (set, aid) replaced by fs.
PutGallery(g, user, set, fs) ==
    IF set = GallerySet THEN [g EXCEPT ![user].Files = fs] ELSE g
PutTrash(t, user, set, fs) ==
    IF set = TrashSet THEN [t EXCEPT ![user].Files = fs] ELSE t
PutAlbum(a, set, aid, fs) ==
    IF set = AlbumSet THEN [a EXCEPT ![aid].Files = fs] ELSE a

\* Whether user owns the file-set (always true of Gallery and Trash).
OwnsSet(user, set, aid) == IF set = AlbumSet THEN albums[aid].OwnerID = user ELSE TRUE

\* AddFile stores an uploaded file and its thumbnail in the blob pool and adds
\* the entry to the file-set.
AddFile(user, content, name, set, aid) ==
    LET fs == FileSetOf(user, set, aid)
        f == [File |-> name, DateCreated |-> now, DateModified |-> now,
              AlbumID |-> IF set = AlbumSet THEN aid ELSE 0,
              StoreFile |-> FileBlob(content), StoreThumb |-> ThumbBlob(content)]
        new == MapPut(fs.Files, name, f)
    IN
    /\ userFile[user] # NoFile
    /\ fs # NoFile
    /\ IF OwnsSet(user, set, aid) THEN TRUE ELSE AllowAdd(albums[aid].Permissions)
    /\ \A u \in UIDs : \A s \in {GallerySet, TrashSet} :
          FileSetOf(u, s, 0) # NoFile => name \notin DOMAIN FileSetOf(u, s, 0).Files
    /\ \A a \in AlbumIDs : albums[a] # NoFile => name \notin DOMAIN albums[a].Files
    /\ refcount' = incRefCount(refcount, name :> f, 1)
    /\ \A b \in Blobs : refcount'[b] <= MaxRefs
    /\ blobsOnDisk' = blobsOnDisk \cup {f.StoreFile, f.StoreThumb}
    /\ gallery' = PutGallery(gallery, user, set, new)
    /\ trash' = PutTrash(trash, user, set, new)
    /\ albums' = PutAlbum(albums, set, aid, new)
    /\ UNCHANGED <<ul, userFile, contactList, manifest, now, registrations, pc, duUser, retErr>>

\* MoveFile moves (isMoving) or copies the named files from one file-set of
\* user to another. A copy adds a reference to each blob; a move adjusts no
\* reference count.
MoveFile(user, setFrom, aidFrom, setTo, aidTo, names, isMoving) ==
    LET from == FileSetOf(user, setFrom, aidFrom)
        to == FileSetOf(user, setTo, aidTo)
        moved == [n \in names |->
                    [from.Files[n] EXCEPT !.DateModified = now,
                                          !.AlbumID = IF setTo = AlbumSet THEN aidTo ELSE 0]]
        newFrom == IF isMoving
                   THEN [n \in DOMAIN from.Files \ names |-> from.Files[n]]
                   ELSE from.Files
        newTo == [n \in DOMAIN to.Files \cup names |->
                    IF n \in names THEN moved[n] ELSE to.Files[n]]
        g1 == PutGallery(gallery, user, setFrom, newFrom)
        t1 == PutTrash(trash, user, setFrom, newFrom)
        a1 == PutAlbum(albums, setFrom, aidFrom, newFrom)
    IN
    /\ userFile[user] # NoFile
    /\ <<setFrom, aidFrom>> # <<setTo, aidTo>>
    /\ from # NoFile /\ to # NoFile
    /\ names # {} /\ names \subseteq DOMAIN from.Files
    /\ isMoving => OwnsSet(user, setFrom, aidFrom)
    /\ IF OwnsSet(user, setTo, aidTo) THEN TRUE ELSE AllowAdd(albums[aidTo].Permissions)
    /\ ~isMoving => /\ setFrom # TrashSet /\ setTo # TrashSet
                    /\ IF OwnsSet(user, setFrom, aidFrom) THEN TRUE
                       ELSE AllowCopy(albums[aidFrom].Permissions)
    /\ gallery' = PutGallery(g1, user, setTo, newTo)
    /\ trash' = PutTrash(t1, user, setTo, newTo)
    /\ albums' = PutAlbum(a1, setTo, aidTo, newTo)
    /\ refcount' = IF isMoving THEN refcount ELSE incRefCount(refcount, moved, 1)
    /\ \A b \in Blobs : refcount'[b] <= MaxRefs
    /\ UNCHANGED <<ul, userFile, contactList, manifest, blobsOnDisk, now,
                   registrations, pc, duUser, retErr>>

\* DeleteFiles permanently removes the named entries from user's Trash.
DeleteFiles(user, names) ==
    LET fs == trash[user]
        gone == [n \in names \cap DOMAIN fs.Files |-> fs.Files[n]]
        rc == incRefCount(refcount, gone, -1)
    IN
    /\ userFile[user] # NoFile
    /\ fs # NoFile
    /\ names # {}
    /\ trash' = [trash EXCEPT ![user].Files = [n \in DOMAIN fs.Files \ names |-> fs.Files[n]]]
    /\ refcount' = rc
    /\ blobsOnDisk' = Unlink(blobsOnDisk, rc)
    /\ UNCHANGED <<ul, userFile, contactList, manifest, gallery, albums, now,
                   registrations, pc, duUser, retErr>>

\* The entry was created before cutoff.
ExpiredBefore(f, cutoff) == f.DateCreated < cutoff

\* The entry was created at or before cutoff.
Expired(f, cutoff) == f.DateCreated <= cutoff

\* EmptyTrash removes from user's Trash the entries created at or before cutoff.
EmptyTrash(user, cutoff) ==
    LET fs == trash[user]
        old == {n \in DOMAIN fs.Files : Expired(fs.Files[n], cutoff)}
        gone == [n \in old |-> fs.Files[n]]
        rc == incRefCount(refcount, gone, -1)
    IN
    /\ userFile[user] # NoFile
    /\ fs # NoFile
    /\ trash' = [trash EXCEPT ![user].Files = [n \in DOMAIN fs.Files \ old |-> fs.Files[n]]]
    /\ refcount' = rc
    /\ blobsOnDisk' = Unlink(blobsOnDisk, rc)
    /\ UNCHANGED <<ul, userFile, contactList, manifest, gallery, albums, now,
                   registrations, pc, duUser, retErr>>

\* The part of the database that deleting albums and members changes.
AlbumState == [albums |-> albums, manifest |-> manifest, refcount |-> refcount,
               blobsOnDisk |-> blobsOnDisk, err |-> FALSE]

\* The album goes and its members drop it; the owner's manifest is left.
deleteAlbumOfMembers(db, owner, aid) ==
    LET album == db.albums[aid] IN
    [albums |-> [db.albums EXCEPT ![aid] = NoFile],
     manifest |-> DropAlbumRefs(db.manifest, aid, album.Members \ {owner}),
     refcount |-> db.refcount,
     blobsOnDisk |-> db.blobsOnDisk,
     err |-> FALSE]

\* DeleteAlbum: the owner's album, its file-set and the references of its
\* files go; every member's manifest drops the album and gains a delete event.
deleteAlbum(db, owner, aid) ==
    LET album == db.albums[aid]
        rc == incRefCount(db.refcount, album.Files, -1)
    IN  [albums |-> [db.albums EXCEPT ![aid] = NoFile],
         manifest |-> DropAlbumRefs(db.manifest, aid, album.Members \cup {owner}),
         refcount |-> rc,
         blobsOnDisk |-> Unlink(db.blobsOnDisk, rc),
         err |-> FALSE]

\* The member leaves, and the album is unshared once only its owner is left.
removeAndUnshare(db, aid, member) ==
    [db EXCEPT !.albums[aid].Members = @ \ {member},
               !.albums[aid].IsShared =
                    db.albums[aid].Members \ {member} # {db.albums[aid].OwnerID},
               !.albums[aid].SharingKeys = MapDelete(@, member),
               !.albums[aid].DateModified = now,
               !.manifest = DropAlbumRefs(@, aid, {member})]

\* RemoveAlbumMember: member leaves the album's member set, its manifest
\* drops the album and gains a delete event.
removeAlbumMember(db, aid, member) ==
    [db EXCEPT !.albums[aid].Members = @ \ {member},
               !.albums[aid].SharingKeys = MapDelete(@, member),
               !.albums[aid].DateModified = now,
               !.manifest = DropAlbumRefs(@, aid, {member})]

DeleteAlbum(owner, aid) ==
    /\ userFile[owner] # NoFile
    /\ manifest[owner] # NoFile
    /\ albums[aid] # NoFile
    /\ albums[aid].OwnerID = owner
    /\ LET db == deleteAlbum(AlbumState, owner, aid) IN
        /\ albums' = db.albums
        /\ manifest' = db.manifest
        /\ refcount' = db.refcount
        /\ blobsOnDisk' = db.blobsOnDisk
    /\ UNCHANGED <<ul, userFile, contactList, gallery, trash, now,
                   registrations, pc, duUser, retErr>>

RemoveAlbumMember(user, aid, member) ==
    /\ userFile[user] # NoFile
    /\ albums[aid] # NoFile
    /\ member # albums[aid].OwnerID
    /\ member \in albums[aid].Members
    /\ user \in {albums[aid].OwnerID, member}
    /\ LET db == removeAlbumMember(AlbumState, aid, member) IN
        /\ albums' = db.albums
        /\ manifest' = db.manifest
    /\ UNCHANGED <<ul, userFile, contactList, gallery, trash, refcount, blobsOnDisk,
                   now, registrations, pc, duUser, retErr>>

-----------------------------------------------------------------------------
\* DeleteUser deletes a user object and all resources attached to it. The call
\* is a sequence of transactions; pc names the next one.

\* No DeleteUser call is running.
Idle == pc \in {"idle", "done", "failed"}

\* The user leaves the directory (users.dat).
DeleteUserList(u) ==
    /\ userFile[u] # NoFile
    /\ ul' = {i \in ul : i.UserID # u}
    /\ pc' = "contacts"
    /\ duUser' = u
    /\ UNCHANGED <<userFile, contactList, manifest, gallery, trash, albums,
                   refcount, blobsOnDisk, now, registrations, retErr>>

\* d.removeAllContacts(u)
DeleteUserContacts ==
    /\ pc = "contacts"
    /\ IF removeAllContactsFails(contactList, duUser)
       THEN /\ pc' = "failed"
            /\ UNCHANGED contactList
       ELSE /\ pc' = "albums"
            /\ \E order \in Orders(removeAllContactsUids(contactList, duUser)) :
                  contactList' = removeAllContacts(contactList, duUser, order)
    /\ UNCHANGED <<ul, userFile, manifest, gallery, trash, albums,
                   refcount, blobsOnDisk, now, registrations, duUser, retErr>>

\* The albums of order go, and every manifest drops them without an event.
DropAlbumsSilently(db, u, order, i) ==
    LET gone == {order[j] : j \in DOMAIN order} IN
    [db EXCEPT !.albums = [a \in DOMAIN db.albums |->
                              IF a \in gone THEN NoFile ELSE db.albums[a]],
               !.manifest = [x \in UIDs |->
                              IF db.manifest[x] = NoFile THEN NoFile
                              ELSE [db.manifest[x] EXCEPT !.Albums = @ \ gone]]]

\* The loop over AlbumRefs(u): owned albums are deleted, the others left.
RECURSIVE DeleteUserAlbumLoop(_, _, _, _)
DeleteUserAlbumLoop(db, u, order, i) ==
    IF i > Len(order) \/ db.err THEN db
    ELSE LET aid == order[i] IN
         DeleteUserAlbumLoop(
            IF db.albums[aid] = NoFile THEN [db EXCEPT !.err = TRUE]
            ELSE IF db.albums[aid].OwnerID = u THEN deleteAlbum(db, u, aid)
            ELSE removeAlbumMember(db, aid, u),
            u, order, i + 1)

DeleteUserAlbums ==
    /\ pc = "albums"
    /\ IF manifest[duUser] = NoFile
       THEN /\ pc' = "failed"
            /\ UNCHANGED <<albums, manifest, refcount, blobsOnDisk>>
       ELSE \E order \in Orders(manifest[duUser].Albums) :
            LET db == DeleteUserAlbumLoop(AlbumState, duUser, order, 1) IN
            /\ pc' = IF db.err THEN "failed" ELSE "files"
            /\ albums' = db.albums
            /\ manifest' = db.manifest
            /\ refcount' = db.refcount
            /\ blobsOnDisk' = db.blobsOnDisk
    /\ UNCHANGED <<ul, userFile, contactList, gallery, trash, now, registrations, duUser, retErr>>

\* The references of the files of Gallery and Trash are dropped.
DeleteUserFiles ==
    /\ pc = "files"
    /\ IF gallery[duUser] = NoFile \/ trash[duUser] = NoFile
       THEN /\ pc' = "failed"
            /\ UNCHANGED <<refcount, blobsOnDisk>>
       ELSE LET rc == incRefCount(incRefCount(refcount, gallery[duUser].Files, -1),
                                  trash[duUser].Files, -1)
            IN  /\ pc' = "remove"
                /\ refcount' = rc
                /\ blobsOnDisk' = Unlink(blobsOnDisk, rc)
    /\ UNCHANGED <<ul, userFile, contactList, manifest, gallery, trash, albums,
                   now, registrations, duUser, retErr>>

\* os.Remove of the five home records, stopping at the first that is missing.
DeleteUserRemove ==
    LET u == duUser
        r1 == userFile[u] # NoFile
        r2 == r1 /\ trash[u] # NoFile
        r3 == r2 /\ gallery[u] # NoFile
        r4 == r3 /\ manifest[u] # NoFile
        r5 == r4 /\ contactList[u] # NoFile
    IN
    /\ pc = "remove"
    /\ userFile' = IF r1 THEN [userFile EXCEPT ![u] = NoFile] ELSE userFile
    /\ trash' = IF r2 THEN [trash EXCEPT ![u] = NoFile] ELSE trash
    /\ gallery' = IF r3 THEN [gallery EXCEPT ![u] = NoFile] ELSE gallery
    /\ manifest' = IF r4 THEN [manifest EXCEPT ![u] = NoFile] ELSE manifest
    /\ contactList' = IF r5 THEN [contactList EXCEPT ![u] = NoFile] ELSE contactList
    /\ pc' = IF r5 THEN "done" ELSE "failed"
    /\ UNCHANGED <<ul, albums, refcount, blobsOnDisk, now, registrations, duUser, retErr>>

\* Time passes.
Tick ==
    /\ now < MaxTime
    /\ now' = now + 1
    /\ UNCHANGED <<ul, userFile, contactList, manifest, gallery, trash, albums,
                   refcount, blobsOnDisk, registrations, pc, duUser, retErr>>

-----------------------------------------------------------------------------
\* The object store's multi-record transactions, as the contact operations
\* of the database use them: OpenManyForUpdate locks the named records one
\* at a time in sorted order and loads them, the caller changes the loaded
\* values, and commit(true) writes every new value to <name>.tmp, renames the
\* temp files into place one at a time and releases the locks.  Reads
\* (ReadDataFile) take no lock.  The records are the contact lists, named by
\* the user ID of their home directory.
VARIABLES
    lockedBy,   \* contact list of uid -> the request holding its lock, or 0
    tmp,        \* home/<uid>/contact-list.dat.tmp: uid -> ContactList or NoFile
    txn,        \* request -> where its running contact operation is
    up,         \* the server process is running
    snap,       \* the contact lists when the running requests began (history)
    started,    \* the operations begun since then, in order (history)
    txnCount,   \* number of operations begun (bounds the model)
    crashes     \* number of crashes (bounds the model)

txVars == <<lockedBy, tmp, txn, up, snap, started, txnCount, crashes>>

NoTxn == [pc |-> "idle"]
NoSnap == [u \in UIDs |-> NoFile]

Range(s) == {s[i] : i \in DOMAIN s}

\* The names of a transaction locked in the order the caller lists them.
CallerOrder(files) == files

\* The names of a transaction in the canonical order of OpenManyForUpdate.
SortNames(files) ==
    CHOOSE s \in Orders(Range(files)) : \A i, j \in DOMAIN s : i < j => s[i] < s[j]

TxActive(p) == txn[p].pc # "idle"

\* The history once request p has returned: forgotten when no request runs.
Forget(p, h, blank) == IF \A q \in Procs \ {p} : ~TxActive(q) THEN blank ELSE h

\* A request begins the operation op on the records listed in files, which
\* OpenManyForUpdate sorts.
TxBegin(p, op, files) ==
    /\ up
    /\ ~TxActive(p)
    /\ txnCount < MaxTxns
    /\ txnCount' = txnCount + 1
    /\ Len(started) < MaxConcurrent
    /\ snap' = IF started = <<>> THEN contactList ELSE snap
    /\ started' = Append(started, op)
    /\ txn' = [txn EXCEPT ![p] =
                 [pc |-> "lock", op |-> op, files |-> SortNames(files), n |-> 0]]
    /\ UNCHANGED <<dbVars, otherVars, lockedBy, tmp, up, crashes>>

\* AddContact(user, contactEmail) up to the call of OpenManyForUpdate.
TxAddContact(p, user, contactEmail) ==
    LET c == User(contactEmail) IN
    /\ userFile[user.UserID] = user
    /\ c # NoFile
    /\ c.UserID # user.UserID
    /\ TxBegin(p, [kind |-> "addContactToUser", user |-> user, contact |-> c],
               <<user.UserID, c.UserID>>)

\* addCrossContacts(list) up to the call of OpenManyForUpdate.
TxAddCrossContacts(p, list) ==
    /\ Len(list) >= 2
    /\ TxBegin(p, [kind |-> "addCrossContacts", list |-> Range(list)],
               [i \in DOMAIN list |-> list[i].UserID])

\* removeAllContacts(user) up to the call of OpenManyForUpdate: user's list is
\* read without a lock and the names are listed in the order of a map range.
TxRemoveAllContacts(p, user, fileSlice) ==
    /\ contactList[user] # NoFile
    /\ fileSlice \in Orders(removeAllContactsUids(contactList, user))
    /\ TxBegin(p, [kind |-> "removeAllContacts", user |-> user], fileSlice)

\* OpenManyForUpdate takes the next lock, in sorted order, once it is free.
TxLock(p) ==
    LET s == txn[p].files
        next == s[txn[p].n + 1]
    IN
    /\ up
    /\ txn[p].pc = "lock"
    /\ lockedBy[next] = 0
    /\ lockedBy' = [lockedBy EXCEPT ![next] = p]
    /\ txn' = [txn EXCEPT ![p] = IF txn[p].n + 1 = Len(s)
                                 THEN [@ EXCEPT !.pc = "open", !.n = 0]
                                 ELSE [@ EXCEPT !.n = @ + 1]]
    /\ UNCHANGED <<dbVars, otherVars, tmp, up, snap, started, txnCount, crashes>>

\* The new values of the opened records in, as the operation op computes them.
TxApply(op, in, order) ==
    CASE op.kind = "addContactToUser" -> addContactToUser(in, op.user, op.contact)
      [] op.kind = "addCrossContacts" -> addCrossContacts(in, op.list)
      [] op.kind = "removeAllContacts" -> RemoveContactLoop(in, op.user, order, 1)

\* With every lock held, OpenManyForUpdate loads the records and the
\* operation changes them; a missing record fails the call, which unlocks.
TxOpen(p) ==
    LET files == Range(txn[p].files)
        in == [u \in files |-> contactList[u]]
    IN
    /\ up
    /\ txn[p].pc = "open"
    /\ IF \E u \in files : contactList[u] = NoFile
       THEN /\ txn' = [txn EXCEPT ![p] = NoTxn]
            /\ lockedBy' = [u \in UIDs |-> IF lockedBy[u] = p THEN 0 ELSE lockedBy[u]]
            /\ snap' = Forget(p, snap, NoSnap)
            /\ started' = Forget(p, started, <<>>)
       ELSE /\ \E order \in Orders(files) :
                  txn' = [txn EXCEPT ![p] =
                            [pc |-> "prepare", op |-> @.op, files |-> @.files, n |-> 0,
                             in |-> in, out |-> TxApply(@.op, in, order)]]
            /\ UNCHANGED <<lockedBy, snap, started>>
    /\ UNCHANGED <<dbVars, otherVars, tmp, up, txnCount, crashes>>

\* commit(true), prepare phase: the next new value is written to <name>.tmp.
TxPrepare(p) ==
    LET s == txn[p].files
        next == s[txn[p].n + 1]
    IN
    /\ up
    /\ txn[p].pc = "prepare"
    /\ tmp' = [tmp EXCEPT ![next] = txn[p].out[next]]
    /\ txn' = [txn EXCEPT ![p] = IF txn[p].n + 1 = Len(s)
                                 THEN [@ EXCEPT !.pc = "rename", !.n = 0]
                                 ELSE [@ EXCEPT !.n = @ + 1]]
    /\ UNCHANGED <<dbVars, otherVars, lockedBy, up, snap, started, txnCount, crashes>>

\* commit(true), commit phase: the next temp file is renamed into place.
TxRename(p) ==
    LET s == txn[p].files
        next == s[txn[p].n + 1]
    IN
    /\ up
    /\ txn[p].pc = "rename"
    /\ contactList' = [contactList EXCEPT ![next] = tmp[next]]
    /\ tmp' = [tmp EXCEPT ![next] = NoFile]
    /\ txn' = [txn EXCEPT ![p] = IF txn[p].n + 1 = Len(s)
                                 THEN [@ EXCEPT !.pc = "release", !.n = 0]
                                 ELSE [@ EXCEPT !.n = @ + 1]]
    /\ UNCHANGED <<ul, userFile, manifest, gallery, trash, albums, refcount,
                   blobsOnDisk, now, registrations, pc, duUser, retErr>>
    /\ UNCHANGED <<otherVars, lockedBy, up, snap, started, txnCount, crashes>>

\* commit releases the locks and the operation returns.
TxRelease(p) ==
    /\ up
    /\ txn[p].pc = "release"
    /\ lockedBy' = [u \in UIDs |-> IF lockedBy[u] = p THEN 0 ELSE lockedBy[u]]
    /\ txn' = [txn EXCEPT ![p] = NoTxn]
    /\ snap' = Forget(p, snap, NoSnap)
    /\ started' = Forget(p, started, <<>>)
    /\ UNCHANGED <<dbVars, otherVars, tmp, up, txnCount, crashes>>

TxStep(p) == TxLock(p) \/ TxOpen(p) \/ TxPrepare(p) \/ TxRename(p) \/ TxRelease(p)

\* The server process dies: its locks go with it, the files stay.
Crash ==
    /\ up
    /\ crashes < MaxCrashes
    /\ \E p \in Procs : TxActive(p)
    /\ up' = FALSE
    /\ crashes' = crashes + 1
    /\ lockedBy' = [u \in UIDs |-> 0]
    /\ UNCHANGED <<dbVars, otherVars, tmp, txn, snap, started, txnCount>>

\* A fresh process starts: the startup sweep deletes the temp files.
Startup ==
    /\ ~up
    /\ up' = TRUE
    /\ tmp' = [u \in UIDs |-> NoFile]
    /\ txn' = [p \in Procs |-> NoTxn]
    /\ snap' = NoSnap
    /\ started' = <<>>
    /\ UNCHANGED <<dbVars, otherVars, lockedBy, txnCount, crashes>>

-----------------------------------------------------------------------------
\* The command-line client's albums and files (client/albums.go).  A command
\* runs alone, from the glob of its arguments to its return; st is the
\* client's store: [al, remote, fs, locks].

ClientAlbumIDs == 1 .. NumClientAlbums
ClientFiles == 1 .. NumClientFiles
AlbumNames == {"a", "b"}

\* The names of the client's records.
albumList == <<"albumList", 0>>
galleryFile == <<"gallery", 0>>
trashFile == <<"trash", 0>>
albumPrefix(aid) == <<"album", aid>>
ClientFileSets == {galleryFile, trashFile} \cup {albumPrefix(a) : a \in ClientAlbumIDs}

\* A nil *stingle.Album.
NilAlbum == [nil |-> TRUE]

\* The AlbumID of a ListItem's album, "" (here 0) without one.
AlbumIDOf(album) == IF album = NilAlbum THEN 0 ELSE album.AlbumID

\* What a command returns: the store it leaves and its error ("" for nil).
R(st, err) == [st |-> st, err |-> err]

\* OpenForUpdate on a record whose lock is held never returns.
Blocked == "blocked"

\* The ListItems of glob.
FileItem(set, album, fileSet, f) ==
    [IsDir |-> FALSE, Set |-> set, Album |-> album, FileSet |-> fileSet, FSFile |-> f]
DirItem(set, album, fileSet) ==
    [IsDir |-> TRUE, Set |-> set, Album |-> album, FileSet |-> fileSet]

\* A directory that is not an album yet.
PlainDir == DirItem("", NilAlbum, <<"", 0>>)

GlobDirs(st) ==
    {DirItem(GallerySet, NilAlbum, galleryFile), DirItem(TrashSet, NilAlbum, trashFile),
     PlainDir}
        \cup {DirItem(AlbumSet, st.al[a], albumPrefix(a)) : a \in DOMAIN st.al}

GlobFilesOf(st, set, album, fileSet) ==
    IF st.fs[fileSet] = NoFile THEN {}
    ELSE {FileItem(set, album, fileSet, st.fs[fileSet].Files[n]) :
            n \in DOMAIN st.fs[fileSet].Files}

GlobFiles(st) ==
    GlobFilesOf(st, GallerySet, NilAlbum, galleryFile)
        \cup GlobFilesOf(st, TrashSet, NilAlbum, trashFile)
        \cup UNION {GlobFilesOf(st, AlbumSet, st.al[a], albumPrefix(a)) : a \in DOMAIN st.al}

\* addAlbum creates an empty album; aid is the random album ID and ioErr
\* tells whether CreateEmptyFile fails.
addAlbum(st, name, aid, ioErr) ==
    LET album == [AlbumID |-> aid, Name |-> name, IsOwner |-> TRUE,
                  Permissions |-> NoPermissions, DateModified |-> now]
    IN  IF albumList \in st.locks
        THEN [st |-> st, err |-> Blocked, album |-> NilAlbum]
        ELSE IF ioErr \/ st.fs[albumPrefix(aid)] # NoFile
        THEN \* return nil, err: commit is not called
             [st |-> [st EXCEPT !.locks = @ \cup {albumList}],
              err |-> "CreateEmptyFile", album |-> NilAlbum]
        ELSE [st |-> [st EXCEPT !.al = MapPut(@, aid, album),
                                !.fs[albumPrefix(aid)] = EmptyFileSet],
              err |-> "", album |-> album]

\* The album is removed with the files it holds.
removeAlbumAnyway(st, item) ==
    IF ~item.IsDir THEN R(st, "cannot remove")
    ELSE IF item.Album = NilAlbum THEN R(st, "cannot remove")
    ELSE IF albumList \in st.locks THEN R(st, Blocked)
    ELSE R([st EXCEPT !.al = MapDelete(@, item.Album.AlbumID),
                      !.fs[albumPrefix(item.Album.AlbumID)] = NoFile], "")

\* removeAlbum removes an empty album.
removeAlbum(st, item) ==
    IF ~item.IsDir THEN R(st, "cannot remove")
    ELSE IF item.Album = NilAlbum THEN R(st, "cannot remove")
    ELSE IF albumList \in st.locks THEN R(st, Blocked)
    ELSE LET aid == item.Album.AlbumID
             fs == st.fs[albumPrefix(aid)]
         IN  IF fs = NoFile THEN R(st, "ReadDataFile")
             ELSE IF DOMAIN fs.Files # {} THEN R(st, "album is not empty")
             ELSE R([st EXCEPT !.al = MapDelete(@, aid),
                               !.fs[albumPrefix(aid)] =
                                    IF aid \in st.remote THEN @ ELSE NoFile], "")

\* renameDir renames an album; a directory without album has nothing to
\* rename.  Album names are flat here, so no album lies below another.
renameDir(st, item, name) ==
    IF item.Album = NilAlbum THEN R(st, "")
    ELSE IF ~item.Album.IsOwner THEN R(st, "only the album owner can rename it")
    ELSE IF albumList \in st.locks THEN R(st, Blocked)
    ELSE IF item.Album.AlbumID \notin DOMAIN st.al THEN R(st, "nil album")
    ELSE R([st EXCEPT !.al[item.Album.AlbumID].Name = name,
                      !.al[item.Album.AlbumID].DateModified = now], "")

\* The caller does not own the album of item.
NotOwner(item) == IF item.Album = NilAlbum THEN FALSE ELSE ~item.Album.IsOwner

\* The files are put into the file-set of toItem as they are, and stay in
\* their own.
moveFilesAsTheyAre(st, fromItems, toItem, rename, moving) ==
    LET from == fromItems[1].FileSet
        to == toItem.FileSet
        put == {i.FSFile.File : i \in Range(fromItems)}
    IN  IF from = to THEN R(st, "source and destination are the same")
        ELSE IF st.fs[from] = NoFile \/ st.fs[to] = NoFile THEN R(st, "fileSetsForUpdate")
        ELSE R([st EXCEPT !.fs[to].Files =
                    [n \in DOMAIN st.fs[to].Files \cup put |->
                        IF n \in put THEN st.fs[from].Files[n] ELSE st.fs[to].Files[n]]], "")

\* moveFiles moves or copies the files of one file-set to toItem.  The loop
\* returns at the first failing item and the deferred commit(false) discards
\* what was changed, so the result does not depend on the order of the items.
moveFiles(st, fromItems, toItem, rename, moving) ==
    LET first == fromItems[1]
        fromAlbumID == AlbumIDOf(first.Album)
        toAlbumID == AlbumIDOf(toItem.Album)
        same == first.Set = toItem.Set /\ fromAlbumID = toAlbumID
        needHeaders == first.Album # NilAlbum \/ toItem.Album # NilAlbum \/ rename # ""
        names == IF same THEN {first.FileSet} ELSE {first.FileSet, toItem.FileSet}
        items == Range(fromItems)
        gone == IF moving THEN {i.FSFile.File : i \in items} ELSE {}
        moved(ff) ==
            [ff EXCEPT !.Headers = IF needHeaders
                                   THEN [key |-> toAlbumID,
                                         name |-> IF rename # "" THEN rename ELSE @.name]
                                   ELSE @,
                       !.DateModified = now,
                       !.AlbumID = toAlbumID]
        from0 == st.fs[first.FileSet].Files
        from1 == [n \in DOMAIN from0 \ gone |-> from0[n]]
        to0 == IF same THEN from1 ELSE st.fs[toItem.FileSet].Files
        put == {i.FSFile.File : i \in items}
        to1 == [n \in DOMAIN to0 \cup put |->
                    IF n \in put
                    THEN moved((CHOOSE i \in items : i.FSFile.File = n).FSFile)
                    ELSE to0[n]]
    IN  IF same /\ rename = "" THEN R(st, "source and destination are the same")
        ELSE IF rename # "" /\ Len(fromItems) # 1
        THEN R(st, "can only rename one file at a time")
        ELSE IF names \cap st.locks # {} THEN R(st, Blocked)
        ELSE IF \E n \in names : st.fs[n] = NoFile THEN R(st, "fileSetsForUpdate")
        ELSE IF moving /\ \E i \in items : NotOwner(i)
        THEN R(st, "only the album owner can move files")
        ELSE IF needHeaders /\ \E i \in items : i.FSFile.Headers.key # fromAlbumID
        THEN R(st, "DecryptBase64Headers")
        ELSE IF same
        THEN R([st EXCEPT !.fs[first.FileSet].Files = to1], "")
        ELSE R([st EXCEPT !.fs[first.FileSet].Files = from1,
                          !.fs[toItem.FileSet].Files = to1], "")

\* The trash is emptied, whatever li names.
deleteAllFiles(st, li) ==
    IF trashFile \in st.locks THEN R(st, Blocked)
    ELSE IF st.fs[trashFile] = NoFile THEN R(st, "fileSetForUpdate")
    ELSE R([st EXCEPT !.fs[trashFile].Files = <<>>], "")

\* deleteFiles removes the files of li from the trash.
deleteFiles(st, li) ==
    LET items == Range(li)
        gone == {i.FSFile.File : i \in items}
    IN  IF trashFile \in st.locks THEN R(st, Blocked)
        ELSE IF st.fs[trashFile] = NoFile THEN R(st, "fileSetForUpdate")
        ELSE IF \E i \in items : NotOwner(i)
        THEN R(st, "only the album owner can delete files")
        ELSE R([st EXCEPT !.fs[trashFile].Files =
                    [n \in DOMAIN @ \ gone |-> @[n]]], "")

\* The key under which Copy, Move and Delete group the source files.
GroupKey(item) == <<item.Set, AlbumIDOf(item.Album)>>
GroupKeys(si) == {GroupKey(si[i]) : i \in {j \in DOMAIN si : ~si[j].IsDir}}

\* The source files of si with group key k, in the order of si.
RECURSIVE Group(_, _, _)
Group(si, k, i) ==
    IF i > Len(si) THEN <<>>
    ELSE IF ~si[i].IsDir /\ GroupKey(si[i]) = k
    THEN <<si[i]>> \o Group(si, k, i + 1)
    ELSE Group(si, k, i + 1)

\* moveFiles for each group, in the order the range over the map yields.
RECURSIVE MoveGroups(_, _, _, _, _, _, _)
MoveGroups(st, si, order, dst, rename, moving, i) ==
    IF i > Len(order) THEN R(st, "")
    ELSE LET r == moveFiles(st, Group(si, order[i], 1), dst, rename, moving)
         IN  IF r.err # "" THEN r
             ELSE MoveGroups(r.st, si, order, dst, rename, moving, i + 1)

\* Copying out of item's album is not allowed.
CopyDenied(item) ==
    IF item.Album = NilAlbum THEN FALSE
    ELSE ~item.Album.IsOwner /\ ~AllowCopy(item.Album.Permissions)

\* Adding to the album of dst is not allowed.
AddAllowedAlways(dst) == FALSE

AddDenied(dst) ==
    IF dst.Album = NilAlbum THEN FALSE
    ELSE ~dst.Album.IsOwner /\ ~AllowAdd(dst.Album.Permissions)

\* Copy's check of one source item, the trash allowed.
CopyItemErrButTrash(item) ==
    IF item.IsDir THEN "cannot copy a directory"
    ELSE IF CopyDenied(item) THEN "copying is not allowed"
    ELSE ""

\* Copy's check of one source item.
CopyItemErr(item) ==
    IF item.IsDir THEN "cannot copy a directory"
    ELSE IF item.Set = TrashSet THEN "cannot copy from trash, only move"
    ELSE IF CopyDenied(item) THEN "copying is not allowed"
    ELSE ""

RECURSIVE CopyItemsErr(_, _)
CopyItemsErr(si, i) ==
    IF i > Len(si) THEN ""
    ELSE IF CopyItemErr(si[i]) # "" THEN CopyItemErr(si[i])
    ELSE CopyItemsErr(si, i + 1)

\* si[0].Album == di[0].Album compares pointers: two nil pointers are equal,
\* and samePtr tells whether glob gave the same pointer for the same album.
SameAlbum(a, b, samePtr) ==
    IF a = NilAlbum \/ b = NilAlbum THEN a = b
    ELSE a.AlbumID = b.AlbumID /\ samePtr

\* The destination directory, once its album exists.
OpenDst(st, dst, aid, ioErr) ==
    IF dst.Set = ""
    THEN LET a == addAlbum(st, "b", aid, ioErr)
         IN  [st |-> a.st, err |-> a.err,
              dst |-> DirItem(AlbumSet, a.album, albumPrefix(aid))]
    ELSE [st |-> st, err |-> "", dst |-> dst]

\* Copy copies the items si to dest; dest.di is the glob of dest, dest.parent
\* the glob of its parent directory and dest.file its last element.
Copy(st, si, dest, aid, ioErr, samePtr, order) ==
    LET renaming == IF Len(si) = 1 THEN ~si[1].IsDir /\ Len(dest.di) = 0 ELSE FALSE
        di == IF renaming THEN dest.parent ELSE dest.di
        rename == IF renaming THEN dest.file ELSE ""
        sameDir == IF renaming /\ Len(di) = 1
                   THEN si[1].Set = di[1].Set /\ SameAlbum(si[1].Album, di[1].Album, samePtr)
                   ELSE FALSE
        o == OpenDst(st, di[1], aid, ioErr)
    IN  IF Len(si) = 0 THEN R(st, "no match")
        ELSE IF CopyItemsErr(si, 1) # "" THEN R(st, CopyItemsErr(si, 1))
        ELSE IF sameDir
        THEN R(st, "a file can't have two different names in the same directory")
        ELSE IF Len(di) = 0 THEN R(st, "no match")
        ELSE IF ~di[1].IsDir THEN R(st, "destination must be a directory")
        ELSE IF o.err # "" THEN R(o.st, o.err)
        ELSE IF AddDenied(o.dst) THEN R(o.st, "adding is not allowed")
        ELSE IF o.dst.Set = TrashSet THEN R(o.st, "cannot copy to trash, only move")
        ELSE MoveGroups(o.st, si, order, o.dst, rename, FALSE, 1)

\* Moving item is not allowed: it is, or lies in, an album of someone else.
MoveAllowedAlways(si) == FALSE

MoveDenied(si) == \E i \in DOMAIN si : NotOwner(si[i])

\* Move's loop over the directories of si: each is renamed to newName below
\* dst unless exists tells that the name is taken.
RECURSIVE RenameDirs(_, _, _, _, _)
RenameDirs(st, si, newName, exists, i) ==
    IF i > Len(si) THEN R(st, "")
    ELSE IF ~si[i].IsDir THEN RenameDirs(st, si, newName, exists, i + 1)
    ELSE IF exists THEN R(st, "already exists")
    ELSE LET r == renameDir(st, si[i], newName)
         IN  IF r.err # "" THEN r
             ELSE RenameDirs(r.st, si, newName, exists, i + 1)

\* Move moves the items si to dest, or renames an album.
Move(st, si, dest, aid, ioErr, newName, exists, order) ==
    LET renaming == IF Len(si) = 1 THEN ~si[1].IsDir /\ Len(dest.di) = 0 ELSE FALSE
        di == IF renaming THEN dest.parent ELSE dest.di
        rename == IF renaming THEN dest.file ELSE ""
        o == OpenDst(st, di[1], aid, ioErr)
        d == RenameDirs(o.st, si, newName, exists, 1)
    IN  IF Len(si) = 0 THEN R(st, "no match")
        ELSE IF MoveDenied(si) THEN R(st, "moving is not allowed")
        ELSE IF (IF Len(si) = 1 THEN si[1].IsDir /\ Len(dest.di) = 0 ELSE FALSE)
        THEN renameDir(st, si[1], newName)
        ELSE IF Len(di) # 1 THEN R(st, "destination must be a directory")
        ELSE IF ~di[1].IsDir THEN R(st, "destination must be a directory")
        ELSE IF o.err # "" THEN R(o.st, o.err)
        ELSE IF AddDenied(o.dst) THEN R(o.st, "adding is not allowed")
        ELSE IF d.err # "" THEN d
        ELSE MoveGroups(d.st, si, order, o.dst, rename, TRUE, 1)

\* Delete's first loop: the directories of si are removed.
RECURSIVE RemoveDirs(_, _, _)
RemoveDirs(st, si, i) ==
    IF i > Len(si) THEN R(st, "")
    ELSE IF ~si[i].IsDir THEN RemoveDirs(st, si, i + 1)
    ELSE LET r == removeAlbum(st, si[i])
         IN  IF r.err # "" THEN r ELSE RemoveDirs(r.st, si, i + 1)

\* Delete's second loop: the files of the trash are deleted, the others are
\* moved to the trash.
RECURSIVE DeleteGroups(_, _, _, _)
DeleteGroups(st, si, order, i) ==
    IF i > Len(order) THEN R(st, "")
    ELSE LET li == Group(si, order[i], 1)
             r == IF li[1].Set = TrashSet THEN deleteFiles(st, li)
                  ELSE moveFiles(st, li, DirItem(TrashSet, NilAlbum, trashFile), "", TRUE)
         IN  IF r.err # "" THEN r ELSE DeleteGroups(r.st, si, order, i + 1)

\* The files of si are removed from every file-set.
DeleteOutright(st, si, order) ==
    LET named == {si[i].FSFile.File : i \in {j \in DOMAIN si : ~si[j].IsDir}} IN
    R([st EXCEPT !.fs = [x \in DOMAIN st.fs |->
            IF st.fs[x] = NoFile THEN NoFile
            ELSE [Files |-> [n \in DOMAIN st.fs[x].Files \ named |-> st.fs[x].Files[n]]]]], "")

\* Delete moves files to the trash, or deletes them from the trash.
Delete(st, si, order) ==
    LET d == RemoveDirs(st, si, 1)
    IN  IF Len(si) = 0 THEN R(st, "")
        ELSE IF d.err # "" THEN d
        ELSE DeleteGroups(d.st, si, order, 1)

\* The client's store.
ClientStore == [al |-> cAl, remote |-> cRemote, fs |-> cFS, locks |-> cLocks]

\* The sources a command may name: up to MaxItems of the items glob lists.
Sources ==
    LET items == GlobDirs(ClientStore) \cup GlobFiles(ClientStore)
    IN  UNION {Orders(s) : s \in {x \in SUBSET items : Cardinality(x) <= MaxItems}}

\* The destinations a command may name: a directory, a file, or a name that
\* does not exist, in a directory or not.
Dests ==
    LET dirs == GlobDirs(ClientStore)
    IN  {[di |-> <<d>>, parent |-> <<>>, file |-> ""] : d \in dirs}
        \cup {[di |-> <<f>>, parent |-> <<>>, file |-> ""] : f \in GlobFiles(ClientStore)}
        \cup {[di |-> <<>>, parent |-> <<d>>, file |-> "r"] : d \in dirs}
        \cup {[di |-> <<>>, parent |-> <<>>, file |-> "r"]}

\* The album ID addAlbum draws: one that is not in use.
FreshAlbumIDs ==
    LET free == {a \in ClientAlbumIDs : a \notin DOMAIN cAl /\ cFS[albumPrefix(a)] = NoFile}
    IN  {a \in free : \A b \in free : a <= b}

\* A command that returned r; a command that is blocked does not return.
Ran(op, si, r) ==
    /\ r.err # Blocked
    /\ cOps' = cOps + 1
    /\ cAl' = r.st.al
    /\ cRemote' = r.st.remote
    /\ cFS' = r.st.fs
    /\ cLocks' = r.st.locks
    /\ cLast' = [op |-> op, err |-> r.err,
                 from |-> {si[i].FileSet : i \in {j \in DOMAIN si : ~si[j].IsDir}}]
    /\ UNCHANGED <<dbVars, txVars, auVars, quVars, mkVars, acVars>>

\* AddAlbums creates the album name, which glob must not find.
AddAlbums(st, name, aid, ioErr) ==
    LET a == addAlbum(st, name, aid, ioErr)
    IN  IF \E x \in DOMAIN st.al : st.al[x].Name = name THEN R(st, "already exists")
        ELSE R(a.st, a.err)

\* RemoveAlbums removes the albums of li.
RemoveAlbums(st, li) ==
    IF \E i \in DOMAIN li : ~li[i].IsDir \/ li[i].Album = NilAlbum
    THEN R(st, "cannot remove")
    ELSE RemoveDirs(st, li, 1)

\* RenameAlbum renames the one album of si to dest.
RenameAlbum(st, si, dest) ==
    IF Len(si) = 0 THEN R(st, "no match")
    ELSE IF Len(si) > 1 THEN R(st, "more than one match")
    ELSE IF \E x \in DOMAIN st.al : st.al[x].Name = dest
    THEN R(st, "destination already exists")
    ELSE renameDir(st, si[1], dest)

AddAlbumsCmd ==
    /\ cOps < MaxClientOps
    /\ \E name \in AlbumNames, aid \in FreshAlbumIDs, ioErr \in BOOLEAN :
            Ran("AddAlbums", <<>>, AddAlbums(ClientStore, name, aid, ioErr))

RemoveAlbumsCmd ==
    /\ cOps < MaxClientOps
    /\ \E li \in Sources :
            Ran("RemoveAlbums", li, RemoveAlbums(ClientStore, li))

RenameAlbumCmd ==
    /\ cOps < MaxClientOps
    /\ \E si \in Sources, dest \in AlbumNames :
            Ran("RenameAlbum", si, RenameAlbum(ClientStore, si, dest))

CopyCmd ==
    /\ cOps < MaxClientOps
    /\ \E si \in Sources, dest \in Dests, aid \in FreshAlbumIDs :
       \E ioErr \in (IF PlainDir \in Range(dest.di) \cup Range(dest.parent)
                     THEN BOOLEAN ELSE {FALSE}),
          samePtr \in (IF Len(dest.di) = 0 THEN BOOLEAN ELSE {FALSE}),
          order \in Orders(GroupKeys(si)) :
            Ran("Copy", si, Copy(ClientStore, si, dest, aid, ioErr, samePtr, order))

MoveCmd ==
    /\ cOps < MaxClientOps
    /\ \E si \in Sources, dest \in Dests, aid \in FreshAlbumIDs :
       \E ioErr \in (IF PlainDir \in Range(dest.di) \cup Range(dest.parent)
                     THEN BOOLEAN ELSE {FALSE}),
          newName \in (IF \E i \in DOMAIN si : si[i].IsDir THEN AlbumNames ELSE {"a"}),
          exists \in (IF \E i \in DOMAIN si : si[i].IsDir THEN BOOLEAN ELSE {FALSE}),
          order \in Orders(GroupKeys(si)) :
            Ran("Move", si, Move(ClientStore, si, dest, aid, ioErr, newName, exists, order))

DeleteCmd ==
    /\ cOps < MaxClientOps
    /\ \E si \in Sources : \E order \in Orders(GroupKeys(si)) :
            Ran("Delete", si, Delete(ClientStore, si, order))

\* What reaches the client's store from outside this file: a file is
\* imported into the gallery, and a sync brings an album that another user
\* shares, with the permissions its owner set, or records that the server
\* knows the client's albums.
ClientFile(n, aid) ==
    [File |-> n, AlbumID |-> aid, DateModified |-> now, Headers |-> [key |-> aid, name |-> "f"]]

ImportFile(n) ==
    /\ cOps < MaxClientOps
    /\ galleryFile \notin cLocks
    /\ n \notin DOMAIN cFS[galleryFile].Files
    /\ cFS' = [cFS EXCEPT ![galleryFile].Files = MapPut(@, n, ClientFile(n, 0))]
    /\ cOps' = cOps + 1
    /\ cLast' = [op |-> "ImportFile", err |-> "", from |-> {}]
    /\ UNCHANGED <<dbVars, txVars, auVars, quVars, mkVars, acVars, cAl, cRemote, cLocks>>

PullAlbum(aid, name, perms, files) ==
    /\ cOps < MaxClientOps
    /\ albumList \notin cLocks
    /\ \A a \in DOMAIN cAl : cAl[a].Name # name
    /\ cAl' = MapPut(cAl, aid, [AlbumID |-> aid, Name |-> name, IsOwner |-> FALSE,
                                Permissions |-> perms, DateModified |-> now])
    /\ cRemote' = cRemote \cup {aid}
    /\ cFS' = [cFS EXCEPT ![albumPrefix(aid)] =
                    [Files |-> [n \in files |-> ClientFile(n, aid)]]]
    /\ cOps' = cOps + 1
    /\ cLast' = [op |-> "PullAlbum", err |-> "", from |-> {}]
    /\ UNCHANGED <<dbVars, txVars, auVars, quVars, mkVars, acVars, cLocks>>

PushAlbums ==
    /\ cOps < MaxClientOps
    /\ albumList \notin cLocks
    /\ DOMAIN cAl \ cRemote # {}
    /\ cRemote' = cRemote \cup DOMAIN cAl
    /\ cOps' = cOps + 1
    /\ cLast' = [op |-> "PushAlbums", err |-> "", from |-> {}]
    /\ UNCHANGED <<dbVars, txVars, auVars, quVars, mkVars, acVars, cAl, cFS, cLocks>>

-----------------------------------------------------------------------------
\* The server's authentication wrapper (server.go: method, checkToken, auth).
\* One request is followed from its arrival to its response; logins, logouts
\* and deletions of users may happen in between.

AuthUIDs == 1 .. NumAuthUsers
TokenKeys == 1 .. NumTokenKeys
Scopes == {"session", "download"}
Methods == {"POST", "GET"}

\* A token is what was sealed in it (subject, scope, serial number) and the
\* key it was sealed with; Malformed is a string that is no token at all.
Malformed == [malformed |-> TRUE]
Tokens ==
    {Malformed}
        \cup [sub : AuthUIDs, key : TokenKeys, scope : Scopes, seq : 1 .. MaxTokens]

\* token.Hash: the digest under which ValidTokens remembers a token.
Hash(tok) == [sha |-> tok]

\* database.User{}: what checkToken returns with an error.
ZeroUser == [UserID |-> 0, TokenKey |-> 0, ValidTokens |-> {}]

NoRequest == [pc |-> "none"]

\* checkToken validates the token tok against the user records users.
checkToken(users, tok, scope) ==
    IF tok = Malformed THEN [err |-> "Subject", user |-> ZeroUser]
    ELSE IF users[tok.sub] = NoFile THEN [err |-> "UserByID", user |-> ZeroUser]
    ELSE IF tok.key # users[tok.sub].TokenKey THEN [err |-> "Decrypt", user |-> ZeroUser]
    ELSE IF tok.scope # scope THEN [err |-> "ErrValidationFailed", user |-> ZeroUser]
    ELSE [err |-> "", user |-> users[tok.sub]]

\* user.ValidTokens[token.Hash(tok)]
AnyTokenValid(user, tok) == TRUE

ValidToken(user, tok) == Hash(tok) \in user.ValidTokens

\* The response of a handler wrapped by auth to a request with method and
\* tok: "405" from method, "NOK logout" for the NOK response with part
\* logout = "1", or "handler" when f is called.
auth(users, method, tok) ==
    LET c == checkToken(users, tok, "session")
    IN  IF method # "POST" THEN "405"
        ELSE IF c.err # "" THEN "NOK logout"
        ELSE IF ~ValidToken(c.user, tok) THEN "NOK logout"
        ELSE "handler"

\* AddUser gives the new user a fresh token key and no valid token.
AuthAddUser(uid, key) ==
    /\ auUsers[uid] = NoFile
    /\ auUsers' = [auUsers EXCEPT ![uid] = [UserID |-> uid, TokenKey |-> key,
                                            ValidTokens |-> {}]]
    /\ UNCHANGED <<dbVars, txVars, clVars, quVars, mkVars, acVars, auReq, auSeq, auRevoked, auResponses>>

\* A login mints a session token and records its hash with the user record.
Login(uid) ==
    /\ auUsers[uid] # NoFile
    /\ auSeq < MaxTokens
    /\ auSeq' = auSeq + 1
    /\ auUsers' = [auUsers EXCEPT ![uid].ValidTokens = @ \cup
            {Hash([sub |-> uid, key |-> auUsers[uid].TokenKey, scope |-> "session",
                   seq |-> auSeq + 1])}]
    /\ UNCHANGED <<dbVars, txVars, clVars, quVars, mkVars, acVars, auReq, auRevoked, auResponses>>

\* A logout removes the hash of the session's token from the user record.
Logout(uid, h) ==
    /\ auUsers[uid] # NoFile
    /\ h \in auUsers[uid].ValidTokens
    /\ auUsers' = [auUsers EXCEPT ![uid].ValidTokens = @ \ {h}]
    /\ auRevoked' = auRevoked \cup {h}
    /\ UNCHANGED <<dbVars, txVars, clVars, quVars, mkVars, acVars, auReq, auSeq, auResponses>>

\* The deletion of a user removes the record and its valid tokens with it.
AuthDeleteUser(uid) ==
    /\ auUsers[uid] # NoFile
    /\ auUsers' = [auUsers EXCEPT ![uid] = NoFile]
    /\ auRevoked' = auRevoked \cup auUsers[uid].ValidTokens
    /\ UNCHANGED <<dbVars, txVars, clVars, quVars, mkVars, acVars, auReq, auSeq, auResponses>>

\* A request arrives at a handler wrapped by auth.
AuthRequest(method, tok) ==
    /\ auReq.pc # "check"
    /\ auResponses < MaxRequests
    /\ auReq' = [pc |-> "check", method |-> method, tok |-> tok]
    /\ UNCHANGED <<dbVars, txVars, clVars, quVars, mkVars, acVars, auUsers, auSeq, auRevoked, auResponses>>

\* The wrapper checks the request and answers, or calls the handler.
AuthRespond ==
    /\ auReq.pc = "check"
    /\ auReq' = [pc |-> "done", method |-> auReq.method, tok |-> auReq.tok,
                 resp |-> auth(auUsers, auReq.method, auReq.tok)]
    /\ auResponses' = auResponses + 1
    /\ UNCHANGED <<dbVars, txVars, clVars, quVars, mkVars, acVars, auUsers, auSeq, auRevoked>>

-----------------------------------------------------------------------------
\* ContactUpdates, and the clock of the queries: the time jumps from 0 to
\* MaxClock - 1 and then to MaxClock.
Clock == {0, MaxClock - 1, MaxClock}

Advance ==
    /\ now < MaxClock
    /\ now' = IF now < MaxClock - 1 THEN MaxClock - 1 ELSE MaxClock
    /\ UNCHANGED <<ul, userFile, contactList, manifest, gallery, trash, albums,
                   refcount, blobsOnDisk, registrations, pc, duUser, retErr>>

\* number(n): the json.Number of n, a string of decimal digits (the digits
\* stand for their characters).
RECURSIVE number(_)
number(n) == IF n < 10 THEN <<n>> ELSE number(n \div 10) \o <<n % 10>>

\* The integer a json.Number stands for.
RECURSIVE NumberValue(_)
NumberValue(d) ==
    IF Len(d) = 1 THEN d[1]
    ELSE 10 * NumberValue(SubSeq(d, 1, Len(d) - 1)) + d[Len(d)]

\* Go's < on strings: byte-wise, a proper prefix first.
RECURSIVE StringLess(_, _)
StringLess(a, b) ==
    IF Len(b) = 0 THEN FALSE
    ELSE IF Len(a) = 0 THEN TRUE
    ELSE IF a[1] # b[1] THEN a[1] < b[1]
    ELSE StringLess(Tail(a), Tail(b))

\* The bytes of the emails of the model.
EmailBytes(e) ==
    IF e = "alice" THEN <<97, 108, 105, 99, 101>>
    ELSE IF e = "bob" THEN <<98, 111, 98>>
    ELSE <<99, 97, 114, 111, 108>>

\* The test of ContactUpdates' loop.
NewerOrSame(v, ts) == v.DateModified >= ts

Newer(v, ts) == v.DateModified > ts

\* The less function ContactUpdates gives to sort.Slice.
ContactLess(a, b) ==
    IF a.DateModified = b.DateModified
    THEN StringLess(EmailBytes(a.Email), EmailBytes(b.Email))
    ELSE StringLess(a.DateModified, b.DateModified)

\* The contacts ContactUpdates appends to out.
ContactUpdatesOut(cl, ts) ==
    {[UserID |-> number(cl.Contacts[u].UserID), Email |-> cl.Contacts[u].Email,
      DateModified |-> number(cl.Contacts[u].DateModified)] :
        u \in {x \in DOMAIN cl.Contacts : Newer(cl.Contacts[x], ts)}}

\* ContactUpdates: the lists sort.Slice may leave (one, unless two entries
\* are equal for the less function).
ContactUpdates(cl, ts) ==
    {out \in Orders(ContactUpdatesOut(cl, ts)) :
        \A i, j \in DOMAIN out : i < j => ~ContactLess(out[j], out[i])}

\* A ContactUpdates call.
ContactUpdatesCall(user, ts) ==
    /\ contactList[user] # NoFile
    /\ \E out \in ContactUpdates(contactList[user], ts) :
            quLast' = [op |-> "ContactUpdates", user |-> user, ts |-> ts, out |-> out]
    /\ UNCHANGED <<dbVars, txVars, clVars, auVars, mkVars, acVars>>

-----------------------------------------------------------------------------
\* The album operations of the database that the tests of the server drive.

SharingKeyIDs == 1 .. NumSharingKeys

\* The members of an album that lose it when it is unshared: none.
NoFormerMembers(album) == {}

\* The members of an album that lose it when it is unshared.
FormerMembers(album) == album.Members \ {album.OwnerID}

\* UnshareAlbum: the owner takes the album back from every member.
UnshareAlbum(owner, aid) ==
    LET album == albums[aid] IN
    /\ userFile[owner] # NoFile
    /\ album # NoFile
    /\ album.OwnerID = owner
    /\ albums' = [albums EXCEPT ![aid] =
            [album EXCEPT !.IsShared = FALSE, !.Members = {}, !.SharingKeys = <<>>,
                          !.DateModified = now]]
    /\ manifest' = DropAlbumRefs(manifest, aid, FormerMembers(album))
    /\ UNCHANGED <<ul, userFile, contactList, gallery, trash, refcount, blobsOnDisk,
                   now, registrations, pc, duUser, retErr>>

\* EditPerms: the owner sets the permissions of the album.
EditPerms(owner, aid, perms) ==
    LET album == albums[aid] IN
    /\ userFile[owner] # NoFile
    /\ album # NoFile
    /\ album.OwnerID = owner
    /\ albums' = [albums EXCEPT ![aid] =
            [album EXCEPT !.Permissions = perms, !.DateModified = now]]
    /\ UNCHANGED <<ul, userFile, contactList, manifest, gallery, trash, refcount,
                   blobsOnDisk, now, registrations, pc, duUser, retErr>>

\* The album aid of the album records al as user sees it: the owner's record
\* with isOwner and encPrivateKey set for the viewer.
AlbumView(al, user, aid) ==
    LET album == al[aid] IN
    [AlbumID |-> aid,
     IsOwner |-> album.OwnerID = user,
     IsShared |-> album.IsShared,
     Members |-> album.Members,
     Permissions |-> album.Permissions,
     DateModified |-> album.DateModified,
     EncPrivateKey |-> IF album.OwnerID = user THEN 0
                       ELSE IF user \in DOMAIN album.SharingKeys
                       THEN album.SharingKeys[user]
                       ELSE 0]

vars == <<dbVars, txVars, otherVars>>

-----------------------------------------------------------------------------
Init ==
    /\ lockedBy = [u \in UIDs |-> 0]
    /\ tmp = [u \in UIDs |-> NoFile]
    /\ txn = [p \in Procs |-> NoTxn]
    /\ up = TRUE
    /\ snap = NoSnap
    /\ started = <<>>
    /\ txnCount = 0
    /\ crashes = 0
    /\ cAl = <<>>
    /\ cRemote = {}
    /\ cFS = [k \in ClientFileSets |->
                IF k \in {galleryFile, trashFile} THEN EmptyFileSet ELSE NoFile]
    /\ cLocks = {}
    /\ cLast = [op |-> "", err |-> "", from |-> {}]
    /\ cOps = 0
    /\ auUsers = [u \in AuthUIDs |-> NoFile]
    /\ auReq = NoRequest
    /\ auSeq = 0
    /\ auRevoked = {}
    /\ auResponses = 0
    /\ quLast = [op |-> ""]
    /\ acReq = [pc |-> "none"]
    /\ mk = <<>>
    /\ mkMsg = <<>>
    /\ mkData = <<>>
    /\ mkFlip = -1
    /\ mkDec = NoFile
    /\ mkFile = NoFile
    /\ mkRead = NoFile
    /\ ul = {}
    /\ userFile = [u \in UIDs |-> NoFile]
    /\ contactList = [u \in UIDs |-> NoFile]
    /\ manifest = [u \in UIDs |-> NoFile]
    /\ gallery = [u \in UIDs |-> NoFile]
    /\ trash = [u \in UIDs |-> NoFile]
    /\ albums = [a \in AlbumIDs |-> NoFile]
    /\ refcount = [b \in Blobs |-> 0]
    /\ blobsOnDisk = {}
    /\ now = 0
    /\ registrations = 0
    /\ pc = "idle"
    /\ duUser = 0
    /\ retErr = ""

\* The users of the directory.
Registered == {i.UserID : i \in ul}

\* The contact operations of the database, one request at a time.
NextContacts ==
    \/ Idle /\ \E e \in Emails, uid \in UIDs : AddUser(e, uid) /\ UNCHANGED <<txVars, otherVars>>
    \/ Idle /\ \E u \in ul, e \in Emails : AddContact(UserByID(u.UserID), e) /\ UNCHANGED <<txVars, otherVars>>
    \/ Idle /\ \E u \in Registered, a \in AlbumIDs : AddAlbum(u, a) /\ UNCHANGED <<txVars, otherVars>>
    \/ Idle /\ \E u \in Registered, a \in AlbumIDs, m \in SUBSET Registered :
                  ShareAlbum(u, a, m, <<1, 1, 1, 1>>, [x \in m |-> 1]) /\ UNCHANGED <<txVars, otherVars>>
    \/ Idle /\ \E u \in Registered : DeleteUserList(u) /\ UNCHANGED <<txVars, otherVars>>
    \/ DeleteUserContacts /\ UNCHANGED <<txVars, otherVars>>
    \/ DeleteUserAlbums /\ UNCHANGED <<txVars, otherVars>>
    \/ DeleteUserFiles /\ UNCHANGED <<txVars, otherVars>>
    \/ DeleteUserRemove /\ UNCHANGED <<txVars, otherVars>>

SpecContacts == Init /\ [][NextContacts]_vars

Sets == {<<GallerySet, 0>>, <<TrashSet, 0>>} \cup {<<AlbumSet, a>> : a \in AlbumIDs}

\* The file operations of the database, one request at a time.
NextFiles ==
    \/ Idle /\ registrations < MaxFileRegistrations /\ AddUser("alice", MinUserID) /\ UNCHANGED <<txVars, otherVars>>
    \/ Idle /\ \E u \in Registered, a \in AlbumIDs : AddAlbum(u, a) /\ UNCHANGED <<txVars, otherVars>>
    \/ Idle /\ \E u \in Registered, c \in Contents, n \in FileNames, s \in Sets :
                  AddFile(u, c, n, s[1], s[2]) /\ UNCHANGED <<txVars, otherVars>>
    \/ Idle /\ \E u \in Registered, f \in Sets, t \in Sets,
                  names \in SUBSET FileNames, isMoving \in BOOLEAN :
                  MoveFile(u, f[1], f[2], t[1], t[2], names, isMoving) /\ UNCHANGED <<txVars, otherVars>>
    \/ Idle /\ \E u \in Registered, names \in SUBSET FileNames : DeleteFiles(u, names) /\ UNCHANGED <<txVars, otherVars>>
    \/ Idle /\ \E u \in Registered, cutoff \in Times : EmptyTrash(u, cutoff) /\ UNCHANGED <<txVars, otherVars>>
    \/ Idle /\ \E u \in Registered, a \in AlbumIDs :
                  Len(manifest[u].Deletes) < MaxDeletes /\ DeleteAlbum(u, a) /\ UNCHANGED <<txVars, otherVars>>
    \/ Idle /\ \E u \in Registered : DeleteUserList(u) /\ UNCHANGED <<txVars, otherVars>>
    \/ DeleteUserContacts /\ UNCHANGED <<txVars, otherVars>>
    \/ DeleteUserAlbums /\ UNCHANGED <<txVars, otherVars>>
    \/ DeleteUserFiles /\ UNCHANGED <<txVars, otherVars>>
    \/ DeleteUserRemove /\ UNCHANGED <<txVars, otherVars>>
    \/ Idle /\ Tick /\ UNCHANGED <<txVars, otherVars>>

SpecFiles == Init /\ [][NextFiles]_vars

\* The FSFile entries, across all users and file-sets, that reference blob b.
EntriesOf(b) ==
    {<<GallerySet, u, n>> : <<u, n>> \in
        {x \in UIDs \X FileNames : /\ gallery[x[1]] # NoFile
                                   /\ x[2] \in DOMAIN gallery[x[1]].Files
                                   /\ b \in {gallery[x[1]].Files[x[2]].StoreFile,
                                             gallery[x[1]].Files[x[2]].StoreThumb}}}
    \cup
    {<<TrashSet, u, n>> : <<u, n>> \in
        {x \in UIDs \X FileNames : /\ trash[x[1]] # NoFile
                                   /\ x[2] \in DOMAIN trash[x[1]].Files
                                   /\ b \in {trash[x[1]].Files[x[2]].StoreFile,
                                             trash[x[1]].Files[x[2]].StoreThumb}}}
    \cup
    {<<AlbumSet, a, n>> : <<a, n>> \in
        {x \in AlbumIDs \X FileNames : /\ albums[x[1]] # NoFile
                                       /\ x[2] \in DOMAIN albums[x[1]].Files
                                       /\ b \in {albums[x[1]].Files[x[2]].StoreFile,
                                                 albums[x[1]].Files[x[2]].StoreThumb}}}

-----------------------------------------------------------------------------
\* C1: for all users A and B whose contact lists exist, B is a key of
\* A.contacts if and only if A is in B.in.
C1_ContactSymmetry ==
    \A a, b \in UIDs :
        (contactList[a] # NoFile /\ contactList[b] # NoFile)
            => (b \in DOMAIN contactList[a].Contacts <=> a \in contactList[b].In)

\* C2: between operations, the refcount of every blob equals the number of
\* FSFile entries, across all users and file-sets, whose storeFile or
\* storeThumb references it, and a blob whose refcount is zero is not on disk.
C2_RefcountSound ==
    Idle => \A b \in Blobs :
                /\ refcount[b] = Cardinality(EntriesOf(b))
                /\ refcount[b] = 0 => b \notin blobsOnDisk

\* What DeleteUser(u) leaves except for the blobs: u is absent from the user
\* directory, its five home records no longer exist and no remaining contact
\* list has u in contacts or in.
DeleteUserRecordsGone(u) ==
    /\ u \notin Registered
    /\ userFile[u] = NoFile /\ gallery[u] = NoFile /\ trash[u] = NoFile
    /\ manifest[u] = NoFile /\ contactList[u] = NoFile
    /\ \A v \in UIDs : contactList[v] # NoFile =>
            u \notin DOMAIN contactList[v].Contacts /\ u \notin contactList[v].In

\* Every blob that no remaining FSFile references (so every blob that only
\* the deleted user's files referenced) has refcount zero.
DeleteUserBlobsFreed == \A b \in Blobs : EntriesOf(b) = {} => refcount[b] = 0

\* C10: when DeleteUser(u) returns without error, u is absent from the user
\* directory, u's records no longer exist, no remaining contact list has u in
\* contacts or in, and the refcount of every blob referenced only by u's
\* files is zero.
C10_DeleteUserCascade ==
    [][(pc = "remove" /\ pc' = "done")
          => (DeleteUserRecordsGone(duUser) /\ DeleteUserBlobsFreed)']_vars

Accounts == {<<"alice", MinUserID>>, <<"bob", MinUserID + 1>>, <<"carol", MinUserID + 2>>}

\* The requests that may take a new operation: the idle one of lowest number
\* (requests are interchangeable).
FreeProcs == {p \in Procs : ~TxActive(p) /\ \A q \in Procs : q < p => TxActive(q)}

\* The contact operations of the database as concurrent requests.
NextTxn ==
    \/ /\ up /\ \A p \in Procs : ~TxActive(p)
       /\ \E a \in Accounts : AddUser(a[1], a[2])
       /\ UNCHANGED <<txVars, otherVars>>
    \/ \E p \in FreeProcs, u \in ul, e \in Emails : TxAddContact(p, UserByID(u.UserID), e)
    \/ \E p \in FreeProcs, uids \in SUBSET Registered :
          \E list \in Orders(lookupContacts(uids)) : TxAddCrossContacts(p, list)
    \/ \E p \in FreeProcs, u \in Registered :
          \E fileSlice \in Orders(removeAllContactsUids(contactList, u)) :
              TxRemoveAllContacts(p, u, fileSlice)
    \/ \E p \in Procs : TxLock(p)
    \/ \E p \in Procs : TxOpen(p)
    \/ \E p \in Procs : TxPrepare(p)
    \/ \E p \in Procs : TxRename(p)
    \/ \E p \in Procs : TxRelease(p)

SpecTxn == Init /\ [][NextTxn]_vars

\* One request at a time, and a server process that may die at any step of it
\* and start again.
NextCrash ==
    \/ /\ up /\ ~TxActive(1)
       /\ \E a \in Accounts : AddUser(a[1], a[2])
       /\ UNCHANGED <<txVars, otherVars>>
    \/ \E u \in ul, e \in Emails : TxAddContact(1, UserByID(u.UserID), e)
    \/ \E uids \in SUBSET Registered :
          \E list \in Orders(lookupContacts(uids)) : TxAddCrossContacts(1, list)
    \/ \E u \in Registered :
          \E fileSlice \in Orders(removeAllContactsUids(contactList, u)) :
              TxRemoveAllContacts(1, u, fileSlice)
    \/ TxLock(1)
    \/ TxOpen(1)
    \/ TxPrepare(1)
    \/ TxRename(1)
    \/ TxRelease(1)
    \/ Crash
    \/ Startup

SpecCrash == Init /\ [][NextCrash]_vars

\* The contact lists an operation may leave when it runs alone on cl.
SerialRun(cl, op) ==
    CASE op.kind = "addContactToUser" -> {addContactToUser(cl, op.user, op.contact)}
      [] op.kind = "addCrossContacts" -> {addCrossContacts(cl, op.list)}
      [] op.kind = "removeAllContacts" ->
            IF removeAllContactsFails(cl, op.user) THEN {cl}
            ELSE {removeAllContacts(cl, op.user, order) :
                    order \in Orders(removeAllContactsUids(cl, op.user))}

\* The contact lists a then b may leave, one after the other, from cl.
Serial(cl, a, b) == UNION {SerialRun(c, b) : c \in SerialRun(cl, a)}

\* C3: when two concurrent multi-record transactions have both finished, the
\* content of every record equals the result of running the two, one after
\* the other in some order, from the records as they were when the first
\* began.
C3_Serializable ==
    [][((\E p \in Procs : TxActive(p)) /\ (\A p \in Procs : ~TxActive(p)')
            /\ Len(started) = 2)
          => contactList' \in Serial(snap, started[1], started[2])
                              \cup Serial(snap, started[2], started[1])]_vars

\* Request p waits for a lock that another request holds.
TxBlocked(p) == txn[p].pc = "lock" /\ lockedBy[txn[p].files[txn[p].n + 1]] # 0

\* Every scheduled request takes its next step.
SpecTxnFair == SpecTxn /\ \A p \in Procs : WF_vars(TxStep(p))

C5_CrashSafe ==
    [][(~up /\ up')
          => /\ \A p \in Procs :
                  txn[p].pc \in {"prepare", "rename"}
                      => \A u \in Range(txn[p].files) : contactList'[u] = txn[p].in[u]
             /\ \A u \in UIDs : tmp'[u] = NoFile]_vars

\* The commands of the client, one at a time.
NextClient ==
    \/ AddAlbumsCmd
    \/ RemoveAlbumsCmd
    \/ RenameAlbumCmd
    \/ CopyCmd
    \/ MoveCmd
    \/ DeleteCmd
    \/ \E n \in ClientFiles : ImportFile(n)
    \/ \E aid \in FreshAlbumIDs, name \in AlbumNames, files \in SUBSET ClientFiles,
          perms \in {p \in Permissions : ~AllowShare(p)} :
            PullAlbum(aid, name, perms, files)
    \/ PushAlbums

SpecClient == Init /\ [][NextClient]_vars

\* C6: whatever way a client command returns, success or error, it has
\* released every lock it took: no lock is held once a command has returned.
C6_LocksReleased == cLocks = {}

\* The albums of the client that belong to someone else.
NotOwned == {a \in DOMAIN cAl : ~cAl[a].IsOwner}

\* C7: a Copy or Move never changes the file-set of an album the caller does
\* not own and whose permissions lack AllowAdd; a Copy that names a file of
\* an album the caller does not own and whose permissions lack AllowCopy
\* fails; and a command that is denied leaves every file-set as it was.
C7_PermissionsEnforced ==
    [][(cOps' = cOps + 1 /\ cLast'.op \in {"Copy", "Move"})
          => /\ \A a \in NotOwned :
                    ~AllowAdd(cAl[a].Permissions)
                        => cFS'[albumPrefix(a)] = cFS[albumPrefix(a)]
             /\ \A a \in NotOwned :
                    (/\ cLast'.op = "Copy"
                     /\ albumPrefix(a) \in cLast'.from
                     /\ ~AllowCopy(cAl[a].Permissions))
                        => cLast'.err # "" /\ cFS' = cFS
             /\ cLast'.err \in {"adding is not allowed", "copying is not allowed"}
                    => cFS' = cFS /\ cAl' = cAl]_vars

\* A Copy into an album of someone else was denied for want of AllowAdd.
C7_Witness ==
    /\ cLast.op = "Copy"
    /\ cLast.err = "adding is not allowed"
    /\ cLast.from = {galleryFile}
    /\ \E a \in NotOwned : ~AllowAdd(cAl[a].Permissions) /\ AllowCopy(cAl[a].Permissions)

\* C8: a Move or Delete that names a file of an album the caller does not
\* own fails and leaves that album's file-set as it was, whatever the
\* album's permissions; the Move leaves every file-set and the album list as
\* they were.
C8_MoveOutDenied ==
    [][(/\ cOps' = cOps + 1
        /\ cLast'.op \in {"Move", "Delete"}
        /\ \E a \in NotOwned : albumPrefix(a) \in cLast'.from)
          => /\ cLast'.err # ""
             /\ \A a \in NotOwned :
                    albumPrefix(a) \in cLast'.from
                        => cFS'[albumPrefix(a)] = cFS[albumPrefix(a)]
             /\ cLast'.op = "Move"
                    => /\ cLast'.err = "moving is not allowed"
                       /\ cFS' = cFS
                       /\ cAl' = cAl]_vars

\* A Move out of an album of someone else that grants every permission was
\* denied.
C8_Witness ==
    /\ cLast.op = "Move"
    /\ cLast.err = "moving is not allowed"
    /\ \E a \in NotOwned :
            /\ cLast.from = {albumPrefix(a)}
            /\ AllowAdd(cAl[a].Permissions)
            /\ AllowCopy(cAl[a].Permissions)

\* Requests to a handler wrapped by auth, among logins and logouts.
NextAuth ==
    \/ \E uid \in AuthUIDs, key \in TokenKeys : AuthAddUser(uid, key)
    \/ \E uid \in AuthUIDs : Login(uid)
    \/ \E uid \in AuthUIDs, tok \in Tokens : Logout(uid, Hash(tok))
    \/ \E uid \in AuthUIDs : AuthDeleteUser(uid)
    \/ \E method \in Methods, tok \in Tokens : AuthRequest(method, tok)
    \/ AuthRespond

SpecAuth == Init /\ [][NextAuth]_vars

\* The token tok is good for a session in the user records users: its
\* subject exists, it opens under the subject's token key, its scope is
\* "session" and its hash is among the subject's valid tokens.
TokenGood(users, tok) ==
    /\ tok # Malformed
    /\ IF users[tok.sub] = NoFile THEN FALSE
       ELSE /\ tok.key = users[tok.sub].TokenKey
            /\ Hash(tok) \in users[tok.sub].ValidTokens
    /\ tok.scope = "session"

\* C9 as stated: the handler is called only for a token that is good at the
\* time of the check, and in every other case the response is NOK with part
\* logout = "1".
C9_AuthOrLogout ==
    [][(auReq.pc = "check" /\ auReq'.pc = "done")
          => /\ auReq'.resp = "handler" => TokenGood(auUsers, auReq.tok)
             /\ ~TokenGood(auUsers, auReq.tok) => auReq'.resp = "NOK logout"]_vars

\* C9, amended: the handler is called only for a POST request whose token is
\* good at the time of the check; a POST request with any other token is
\* answered NOK with part logout = "1", and a request with another method is
\* answered 405 whatever its token; a token that was removed from the valid
\* tokens never reaches the handler again.
C9_AuthPostOrLogout ==
    [][(auReq.pc = "check" /\ auReq'.pc = "done")
          => /\ auReq'.resp = "handler"
                    => auReq.method = "POST" /\ TokenGood(auUsers, auReq.tok)
             /\ (auReq.method = "POST" /\ ~TokenGood(auUsers, auReq.tok))
                    => auReq'.resp = "NOK logout"
             /\ auReq.method # "POST" => auReq'.resp = "405"
             /\ Hash(auReq.tok) \in auRevoked => auReq'.resp # "handler"]_vars

\* A POST request was refused with a token that was good until its logout.
C9_Witness ==
    /\ auReq.pc = "done"
    /\ auReq.method = "POST"
    /\ auReq.resp = "NOK logout"
    /\ Hash(auReq.tok) \in auRevoked
    /\ auReq.tok.scope = "session"
    /\ auUsers[auReq.tok.sub] # NoFile
    /\ auUsers[auReq.tok.sub].TokenKey = auReq.tok.key

-----------------------------------------------------------------------------
\* Registrations and deletions of users: AddUser calls arrive while a
\* DeleteUser call is between its transactions.
NextUsers ==
    \/ \E e \in Emails, bi \in RandInts : AddUser(e, AllocUID(bi)) /\ UNCHANGED <<txVars, otherVars>>
    \/ Idle /\ \E u \in UIDs : DeleteUserList(u) /\ UNCHANGED <<txVars, otherVars>>
    \/ DeleteUserContacts /\ UNCHANGED <<txVars, otherVars>>
    \/ DeleteUserAlbums /\ UNCHANGED <<txVars, otherVars>>
    \/ DeleteUserFiles /\ UNCHANGED <<txVars, otherVars>>
    \/ DeleteUserRemove /\ UNCHANGED <<txVars, otherVars>>

SpecUsers == Init /\ [][NextUsers]_vars

\* No two entries of the user directory share a user ID or an email, and
\* every user ID is at least 1000000 and fits in a signed 32-bit integer.
DirectoryUnique ==
    /\ \A i, j \in ul : (i.UserID = j.UserID \/ i.Email = j.Email) => i = j
    /\ \A i \in ul : MinUserID <= i.UserID /\ i.UserID <= MaxInt32

\* C11: at every point of every interleaving of AddUser and DeleteUser the
\* directory has no two entries with the same user ID or the same email and
\* every user ID is in 1000000 .. 2^31 - 1; an AddUser call either adds one
\* entry whose email and user ID are new, or returns Exists and leaves the
\* directory as it was.
C11_DirectoryUnique ==
    /\ []DirectoryUnique
    /\ [][registrations' = registrations + 1
            => IF retErr' = "ErrExist"
               THEN ul' = ul
               ELSE \E e \in ul' :
                        /\ e \notin ul
                        /\ ul' = ul \cup {e}
                        /\ \A i \in ul : i.Email # e.Email /\ i.UserID # e.UserID]_vars

\* An AddUser for a registered email was refused while a DeleteUser call is
\* running, and the directory holds the largest user ID.
C11_Witness ==
    /\ retErr = "ErrExist"
    /\ pc \notin {"idle", "done", "failed"}
    /\ \E i \in ul : i.UserID = MaxInt32 - 1

-----------------------------------------------------------------------------
\* Contacts are added at different times and queried.
NextUpdates ==
    \/ Idle /\ \E a \in Accounts : AddUser(a[1], a[2]) /\ UNCHANGED <<txVars, otherVars>>
    \/ Idle /\ \E u \in ul, e \in Emails : AddContact(UserByID(u.UserID), e) /\ UNCHANGED <<txVars, otherVars>>
    \/ Idle /\ Advance /\ UNCHANGED <<txVars, otherVars>>
    \/ \E u \in Registered, ts \in Clock : ContactUpdatesCall(u, ts)

SpecUpdates == Init /\ [][NextUpdates]_vars

\* The set of the entries of a list.
Entries(out) == {out[i] : i \in DOMAIN out}

\* The largest dateModified of a list that is not empty.
MaxDateModified(out) ==
    CHOOSE m \in {NumberValue(c.DateModified) : c \in Entries(out)} :
        \A c \in Entries(out) : NumberValue(c.DateModified) <= m

\* C12: ContactUpdates(user, ts) returns exactly the contacts of the user
\* whose dateModified is greater than ts; over one state the result for a
\* later cursor is a subset of the result for an earlier one, and the call
\* with the largest dateModified of a result returns the empty list.
C12_ContactUpdatesCursor ==
    /\ [](\A u \in UIDs : contactList[u] # NoFile =>
            \A ts \in Clock : \A out \in ContactUpdates(contactList[u], ts) :
                /\ \A ts2 \in {t \in Clock : t >= ts} :
                        \A out2 \in ContactUpdates(contactList[u], ts2) :
                            Entries(out2) \subseteq Entries(out)
                /\ out # <<>> =>
                        ContactUpdates(contactList[u], MaxDateModified(out)) = {<<>>})
    /\ [][quLast' # quLast =>
            {<<NumberValue(c.UserID), NumberValue(c.DateModified)>> : c \in Entries(quLast'.out)}
                = {<<x, contactList[quLast'.user].Contacts[x].DateModified>> :
                    x \in {y \in DOMAIN contactList[quLast'.user].Contacts :
                            contactList[quLast'.user].Contacts[y].DateModified > quLast'.ts}}]_vars

\* A call returned some of the contacts of a user and left an older one out.
C12_Witness ==
    /\ quLast.op = "ContactUpdates"
    /\ quLast.ts > 0
    /\ quLast.out # <<>>
    /\ Len(quLast.out) < Cardinality(DOMAIN contactList[quLast.user].Contacts)

\* C13: the list ContactUpdates returns is ordered by dateModified ascending
\* as a number, and entries with equal dateModified by email ascending.
C13_ContactUpdatesSorted ==
    quLast.op = "ContactUpdates" =>
        \A i, j \in DOMAIN quLast.out :
            i < j =>
                \/ NumberValue(quLast.out[i].DateModified)
                        < NumberValue(quLast.out[j].DateModified)
                \/ /\ NumberValue(quLast.out[i].DateModified)
                        = NumberValue(quLast.out[j].DateModified)
                   /\ ~StringLess(EmailBytes(quLast.out[j].Email),
                                  EmailBytes(quLast.out[i].Email))

-----------------------------------------------------------------------------
\* A request to the database was served: quLast records it.
Served(r) == quLast' = r /\ UNCHANGED <<txVars, clVars, auVars, mkVars, acVars>>

\* No user has MaxDeletes album delete events yet.
DeletesLeft == \A u \in UIDs : manifest[u] # NoFile => Len(manifest[u].Deletes) < MaxDeletes

\* The album IDs that were never used: album IDs are random.
FreshAlbums ==
    {a \in AlbumIDs :
        /\ albums[a] = NoFile
        /\ \A u \in UIDs : manifest[u] # NoFile =>
                \A i \in DOMAIN manifest[u].Deletes : manifest[u].Deletes[i].AlbumID # a}

\* The permissions the owner of an album chooses from.
SharePerms == {p \in Permissions : AllowAdd(p) /\ AllowCopy(p)}

\* Albums are created, shared, edited, left, unshared and deleted, and users
\* are deleted, one request at a time.
NextAlbums ==
    \/ Idle /\ \E a \in Accounts :
            /\ a[2] = MinUserID + registrations
            /\ AddUser(a[1], a[2])
            /\ Served([op |-> "AddUser"])
    \/ Idle /\ now > 0 /\ \E u \in Registered, a \in FreshAlbums :
            AddAlbum(u, a) /\ Served([op |-> "AddAlbum", user |-> u, aid |-> a])
    \/ Idle /\ \E u \in Registered, a \in AlbumIDs, m \in SUBSET Registered,
                  perms \in SharePerms, k \in SharingKeyIDs :
            /\ m # {}
            /\ ShareAlbum(u, a, m, perms, [x \in m |-> k])
            /\ Served([op |-> "ShareAlbum", user |-> u, aid |-> a, members |-> m,
                       perms |-> perms, keys |-> [x \in m |-> k]])
    \/ Idle /\ \E u \in Registered, a \in AlbumIDs, perms \in SharePerms :
            EditPerms(u, a, perms) /\ Served([op |-> "EditPerms", user |-> u, aid |-> a])
    \/ Idle /\ DeletesLeft /\ \E u \in Registered, a \in AlbumIDs, m \in UIDs :
            /\ RemoveAlbumMember(u, a, m)
            /\ Served([op |-> IF u = m THEN "LeaveAlbum" ELSE "RemoveAlbumMember",
                       user |-> u, aid |-> a, member |-> m])
    \/ Idle /\ DeletesLeft /\ \E u \in Registered, a \in AlbumIDs :
            UnshareAlbum(u, a) /\ Served([op |-> "UnshareAlbum", user |-> u, aid |-> a])
    \/ Idle /\ DeletesLeft /\ \E u \in Registered, a \in AlbumIDs :
            DeleteAlbum(u, a) /\ Served([op |-> "DeleteAlbum", user |-> u, aid |-> a])
    \/ Idle /\ DeletesLeft /\ \E u \in Registered :
            DeleteUserList(u) /\ Served([op |-> "DeleteUser", user |-> u])
    \/ DeleteUserContacts /\ Served(quLast)
    \/ DeleteUserAlbums /\ Served(quLast)
    \/ DeleteUserFiles /\ Served(quLast)
    \/ DeleteUserRemove /\ Served(quLast)
    \/ Idle /\ Advance /\ Served([op |-> "Advance"])

SpecAlbums == Init /\ [][NextAlbums]_vars

\* C14: after share(album, members, sharingKeys) the owner's album record
\* has isShared = 1 and its members are the previous ones and the new ones
\* (with the owner), each new member's manifest holds the album, which the
\* member sees with isOwner = 0 and with the sharing key supplied for it as
\* encPrivateKey, and every member of the album has every other member in
\* its contact list.
C14_ShareAlbum ==
    [][quLast'.op = "ShareAlbum" =>
        LET aid == quLast'.aid
            old == albums[aid]
            new == albums'[aid]
            added == quLast'.members \ (old.Members \cup {old.OwnerID})
        IN  /\ new.IsShared
            /\ new.Members = old.Members \cup quLast'.members \cup {old.OwnerID}
            /\ \A m \in added :
                    /\ aid \in manifest'[m].Albums
                    /\ ~AlbumView(albums', m, aid).IsOwner
                    /\ AlbumView(albums', m, aid).EncPrivateKey = quLast'.keys[m]
            /\ \A x, y \in new.Members :
                    x # y => y \in DOMAIN contactList'[x].Contacts]_vars

\* A member shared the album with a third user, who sees it with its key.
C14_Witness ==
    /\ quLast.op = "ShareAlbum"
    /\ albums[quLast.aid] # NoFile
    /\ quLast.user # albums[quLast.aid].OwnerID
    /\ Cardinality(albums[quLast.aid].Members) = 3
    /\ \E m \in quLast.members :
            /\ m \notin {quLast.user, albums[quLast.aid].OwnerID}
            /\ AlbumView(albums, m, quLast.aid).EncPrivateKey = 2

\* C15: a share by a user who is not the owner goes through only when the
\* album's permissions have allowShare, and it leaves the permissions as the
\* owner last set them.
C15_MemberShare ==
    [][(quLast'.op = "ShareAlbum" /\ quLast'.user # albums[quLast'.aid].OwnerID) =>
        /\ AllowShare(albums[quLast'.aid].Permissions)
        /\ albums'[quLast'.aid].Permissions = albums[quLast'.aid].Permissions]_vars

\* A member added a user to the album with a request that named other
\* permissions than the album's.
C15_Witness ==
    /\ quLast.op = "ShareAlbum"
    /\ albums[quLast.aid] # NoFile
    /\ quLast.user # albums[quLast.aid].OwnerID
    /\ quLast.perms # albums[quLast.aid].Permissions
    /\ quLast.members \subseteq albums[quLast.aid].Members
    /\ Cardinality(albums[quLast.aid].Members) = 3
    /\ albums[quLast.aid].SharingKeys[quLast.user] # quLast.keys[CHOOSE x \in quLast.members : TRUE]

\* The step is an unshareAlbum that cleared the sharing state of the album,
\* took it out of the manifest of every former member and gave each of them
\* one new delete event of type album dated at the unshare time.
UnshareClears ==
    LET aid == quLast'.aid
        old == albums[aid]
        new == albums'[aid]
    IN  /\ ~new.IsShared
        /\ new.Members = {}
        /\ new.SharingKeys = <<>>
        /\ new.Permissions = old.Permissions
        /\ new.AlbumID = old.AlbumID
        /\ new.OwnerID = old.OwnerID
        /\ new.Files = old.Files
        /\ aid \in manifest'[old.OwnerID].Albums
        /\ \A m \in old.Members \ {old.OwnerID} :
                /\ aid \notin manifest'[m].Albums
                /\ manifest'[m].Deletes =
                        Append(manifest[m].Deletes,
                               [File |-> 0, AlbumID |-> aid, Date |-> now,
                                Type |-> DeleteEventAlbum])

\* C16: after unshareAlbum by the owner the owner's record has isShared = 0,
\* no members and no sharing keys, its permissions and its other fields are
\* kept except dateModified, which is the unshare time, the album is in no
\* former member's manifest and each former member has one new delete event
\* of type album for it dated at the unshare time.
C16_Unshare ==
    [][quLast'.op = "UnshareAlbum" =>
        /\ UnshareClears
        /\ albums'[quLast'.aid].DateModified = now]_vars

\* C16 as stated: every other field of the owner's record, dateModified
\* included, stays as it was.
C16_UnshareKeepsAll ==
    [][quLast'.op = "UnshareAlbum" =>
        /\ UnshareClears
        /\ albums'[quLast'.aid].DateModified = albums[quLast'.aid].DateModified]_vars

\* An album shared with two members, with permissions the owner set, was
\* unshared later than it was last modified.
C16_Witness ==
    /\ quLast.op = "UnshareAlbum"
    /\ albums[quLast.aid] # NoFile
    /\ ~albums[quLast.aid].IsShared
    /\ albums[quLast.aid].Permissions \in SharePerms
    /\ Cardinality({m \in UIDs : /\ manifest[m] # NoFile
                                 /\ Len(manifest[m].Deletes) = 1
                                 /\ manifest[m].Deletes[1].AlbumID = quLast.aid
                                 /\ manifest[m].Deletes[1].Date = now
                                 /\ manifest[m].Deletes[1].Date = albums[quLast.aid].DateModified}) = 2

\* User u is the owner or a member of album aid.
HoldsAlbum(u, aid) ==
    /\ albums[aid] # NoFile
    /\ u = albums[aid].OwnerID \/ u \in albums[aid].Members

\* The delete log of u grew in this step, by events among which is one of
\* type album for aid dated now.
AlbumEventAppended(u, aid) ==
    LET old == manifest[u].Deletes
        new == manifest'[u].Deletes
    IN  /\ Len(new) > Len(old)
        /\ SubSeq(new, 1, Len(old)) = old
        /\ \E i \in (Len(old) + 1) .. Len(new) :
                new[i] = [File |-> 0, AlbumID |-> aid, Date |-> now,
                          Type |-> DeleteEventAlbum]

\* C17: whatever the sequence of share, leaveAlbum, removeAlbumMember,
\* unshareAlbum, deleteAlbum and DeleteUser, an album is in the manifest of
\* a user only while the user is its owner or one of its members, and every
\* step that takes the album out of a user's manifest appends a delete event
\* for that album to that user's delete log.
C17_AbsentEmitsDelete ==
    /\ [](\A u \in UIDs, a \in AlbumIDs :
            (manifest[u] # NoFile /\ a \in manifest[u].Albums) => HoldsAlbum(u, a))
    /\ [][\A u \in UIDs, a \in AlbumIDs :
            (/\ manifest[u] # NoFile
             /\ manifest'[u] # NoFile
             /\ a \in manifest[u].Albums
             /\ a \notin manifest'[u].Albums) => AlbumEventAppended(u, a)]_vars

\* The owner of an album shared with two members is being deleted: its
\* album is gone and both members have the delete event.
C17_Witness ==
    /\ quLast.op = "DeleteUser"
    /\ pc = "files"
    /\ \A a \in AlbumIDs : albums[a] = NoFile
    /\ Cardinality({m \in Registered :
            /\ manifest[m] # NoFile
            /\ manifest[m].Albums = {}
            /\ Len(manifest[m].Deletes) = 1
            /\ manifest[m].Deletes[1].Type = DeleteEventAlbum
            /\ manifest[m].Deletes[1].Date = now}) = 2

\* C18: removeAlbumMember by the owner and leaveAlbum by the member take
\* exactly that member out of the member set of the owner's record and set
\* dateModified to the current time; isShared, the permissions, the other
\* fields and the remaining members are as before, also when the owner is
\* the only member left.
C18_RemoveMember ==
    [][quLast'.op \in {"RemoveAlbumMember", "LeaveAlbum"} =>
        LET aid == quLast'.aid
            old == albums[aid]
            new == albums'[aid]
        IN  /\ quLast'.member \in old.Members
            /\ quLast'.user = IF quLast'.op = "LeaveAlbum" THEN quLast'.member
                              ELSE old.OwnerID
            /\ new.Members = old.Members \ {quLast'.member}
            /\ new.DateModified = now
            /\ new.IsShared = old.IsShared
            /\ new.Permissions = old.Permissions
            /\ new.OwnerID = old.OwnerID
            /\ new.AlbumID = old.AlbumID
            /\ new.Files = old.Files]_vars

\* The last member left an album that was modified earlier: the owner is
\* the only member and the album is still shared.
C18_Witness ==
    /\ quLast.op = "LeaveAlbum"
    /\ albums[quLast.aid] # NoFile
    /\ albums[quLast.aid].Members = {albums[quLast.aid].OwnerID}
    /\ albums[quLast.aid].IsShared
    /\ albums[quLast.aid].DateModified = MaxClock
    /\ ~AllowShare(albums[quLast.aid].Permissions)

-----------------------------------------------------------------------------
\* getUpdates: the albums stream and the deletes stream of user from cursor ts.

AlbumUpdates(user, ts) ==
    {AlbumView(albums, user, a) :
        a \in {x \in manifest[user].Albums :
                    albums[x] # NoFile /\ albums[x].DateModified > ts}}

DeleteUpdates(user, ts) ==
    {d \in {manifest[user].Deletes[i] : i \in DOMAIN manifest[user].Deletes} : d.Date > ts}

\* The events of type album for aid among the events ds.
AlbumEvents(ds, aid) == {d \in ds : d.AlbumID = aid /\ d.Type = DeleteEventAlbum}

-----------------------------------------------------------------------------
\* The commands of the client while time passes.
NextMove ==
    \/ NextClient
    \/ Tick /\ UNCHANGED <<txVars, otherVars>>

SpecMove == Init /\ [][NextMove]_vars

\* The files of one file-set that a call of moveFiles may be given, and the
\* directories it may be given as destination.
FileGroups ==
    {si \in Sources :
        /\ Len(si) > 0
        /\ \A i \in DOMAIN si : ~si[i].IsDir /\ GroupKey(si[i]) = GroupKey(si[1])}
DestDirs == {d \in GlobDirs(ClientStore) : d.Set # ""}

\* The store r.st is the store st with the files of si moved, or copied, from
\* their file-set to that of dst, and nothing else changed.
Transferred(st, r, si, dst, moving) ==
    LET F == {si[i].FSFile.File : i \in DOMAIN si}
        S == st.fs[si[1].FileSet].Files
        D == st.fs[dst.FileSet].Files
        S1 == r.st.fs[si[1].FileSet].Files
        D1 == r.st.fs[dst.FileSet].Files
    IN  /\ F \subseteq DOMAIN S
        /\ DOMAIN S1 = IF moving THEN DOMAIN S \ F ELSE DOMAIN S
        /\ \A n \in DOMAIN S1 : S1[n] = S[n]
        /\ DOMAIN D1 = DOMAIN D \cup F
        /\ \A n \in DOMAIN D \ F : D1[n] = D[n]
        /\ \A n \in F : /\ D1[n].File = n
                        /\ D1[n].DateModified = now
                        /\ D1[n].AlbumID = AlbumIDOf(dst.Album)
        /\ \A x \in ClientFileSets \ {si[1].FileSet, dst.FileSet} : r.st.fs[x] = st.fs[x]
        /\ r.st.al = st.al
        /\ r.st.locks = st.locks

\* C20: a successful move of files F from file-set S to a different file-set
\* D takes exactly the entries of F out of S and puts them into D, a
\* successful copy puts them into D and leaves S as it was; every entry that
\* is not in F is unchanged in S and in D, and each entry put into D has
\* dateModified = now and the album ID of the destination.
C20_MoveCopy ==
    \A si \in FileGroups, dst \in DestDirs, moving \in BOOLEAN, rename \in {"", "r"} :
        LET r == moveFiles(ClientStore, si, dst, rename, moving) IN
        (r.err = "" /\ si[1].FileSet # dst.FileSet)
            => Transferred(ClientStore, r, si, dst, moving)

\* A file imported earlier was moved from the gallery, where another file
\* stays, to an album: it carries the time of the move and the album's ID.
C20_Witness ==
    /\ cLast.op = "Move"
    /\ cLast.err = ""
    /\ cLast.from = {galleryFile}
    /\ now > 0
    /\ \E a \in DOMAIN cAl : \E n \in DOMAIN cFS[albumPrefix(a)].Files :
            /\ cFS[albumPrefix(a)].Files[n].AlbumID = a
            /\ cFS[albumPrefix(a)].Files[n].DateModified = now
            /\ n \notin DOMAIN cFS[galleryFile].Files
            /\ \E k \in DOMAIN cFS[galleryFile].Files :
                    cFS[galleryFile].Files[k].DateModified < now

-----------------------------------------------------------------------------
\* The trash as a directory, and the destinations that lie in it: the trash
\* itself, or a new name in it.
TrashDir == DirItem(TrashSet, NilAlbum, trashFile)
TrashDests ==
    {[di |-> <<TrashDir>>, parent |-> <<>>, file |-> ""],
     [di |-> <<>>, parent |-> <<TrashDir>>, file |-> "r"]}

\* One of the items si is in the trash.
HasTrash(si) == \E i \in DOMAIN si : si[i].Set = TrashSet

\* The album ID a command draws when it creates an album.
DrawnAlbumIDs == IF FreshAlbumIDs = {} THEN {0} ELSE FreshAlbumIDs

\* The files of si are in the trash of store st, stamped now, and no longer
\* where they were.
InTrash(st, si) ==
    \A i \in DOMAIN si :
        /\ si[i].FSFile.File \in DOMAIN st.fs[trashFile].Files
        /\ st.fs[trashFile].Files[si[i].FSFile.File].DateModified = now
        /\ si[i].FSFile.File \notin DOMAIN st.fs[si[i].FileSet].Files

\* The files of one file-set other than the trash.
IsFileGroup(si) ==
    /\ Len(si) > 0
    /\ \A i \in DOMAIN si : ~si[i].IsDir /\ GroupKey(si[i]) = GroupKey(si[1])

\* C21: a Copy with a source item in the trash, or with the trash as
\* destination, fails and changes no file-set; a Move of files the caller
\* may move to the trash is carried out.
C21_NoCopyWithTrash ==
    LET st == ClientStore
        srcs == Sources
        dests == Dests
    IN  \A si \in srcs :
            /\ \A dest \in (IF HasTrash(si) THEN dests ELSE TrashDests),
                  samePtr \in BOOLEAN, aid \in DrawnAlbumIDs,
                  order \in Orders(GroupKeys(si)) :
                    LET r == Copy(st, si, dest, aid, FALSE, samePtr, order) IN
                    /\ r.err # ""
                    /\ r.st.fs = cFS
                    /\ r.st.al = cAl
            /\ (IsFileGroup(si) /\ ~HasTrash(si)) =>
                    LET r == Move(st, si, [di |-> <<TrashDir>>, parent |-> <<>>, file |-> ""],
                                  0, FALSE, "a", FALSE, <<GroupKey(si[1])>>)
                    IN  IF MoveDenied(si)
                        THEN r.err = "moving is not allowed" /\ r.st.fs = cFS
                        ELSE r.err \in {"", Blocked} /\ (r.err = "" => InTrash(r.st, si))

\* A Copy of a file of the trash was refused, after a Move or a Delete had
\* put the file there.
C21_Witness ==
    /\ cLast.op = "Copy"
    /\ cLast.err = "cannot copy from trash, only move"
    /\ cLast.from = {trashFile}
    /\ cOps >= 3

\* The items that name the files of names as files of the trash, whether
\* the trash of store st holds them or not.
TrashItems(st, names) ==
    LET T == st.fs[trashFile].Files IN
    UNION {Orders({FileItem(TrashSet, NilAlbum, trashFile,
                            IF n \in DOMAIN T THEN T[n] ELSE ClientFile(n, 0)) : n \in ns}) :
            ns \in SUBSET names \ {{}}}

\* C22: deleteFiles removes from the trash exactly the named entries that
\* the trash holds; a name that is not in the trash is ignored, and the
\* gallery and every album file-set are unchanged.
C22_DeleteFromTrash ==
    LET st == ClientStore IN
    \A li \in TrashItems(st, ClientFiles) :
        LET r == deleteFiles(st, li)
            names == {li[i].FSFile.File : i \in DOMAIN li}
            T == st.fs[trashFile].Files
            T1 == r.st.fs[trashFile].Files
        IN  /\ r.err \in {"", Blocked}
            /\ r.err = Blocked => r.st = st
            /\ r.err = "" =>
                /\ DOMAIN T1 = DOMAIN T \ names
                /\ \A n \in DOMAIN T1 : T1[n] = T[n]
                /\ \A x \in ClientFileSets \ {trashFile} : r.st.fs[x] = st.fs[x]
                /\ r.st.al = st.al
                /\ r.st.locks = st.locks

\* A file that had been moved to the trash was deleted for good.
C22_Witness ==
    /\ cLast.op = "Delete"
    /\ cLast.err = ""
    /\ cLast.from = {trashFile}
    /\ DOMAIN cFS[trashFile].Files = {}
    /\ cOps = MaxClientOps

-----------------------------------------------------------------------------
\* The file requests of one user, one at a time, each recorded in quLast.
NextTrash ==
    \/ Idle /\ ul = {} /\ AddUser("alice", MinUserID) /\ Served([op |-> "AddUser"])
    \/ Idle /\ \E u \in Registered, a \in AlbumIDs :
            AddAlbum(u, a) /\ Served([op |-> "AddAlbum", user |-> u])
    \/ Idle /\ \E u \in Registered, c \in Contents, n \in FileNames, s \in Sets :
            AddFile(u, c, n, s[1], s[2]) /\ Served([op |-> "AddFile", user |-> u])
    \/ Idle /\ \E u \in Registered, f \in Sets, t \in Sets, names \in SUBSET FileNames,
                  isMoving \in BOOLEAN :
            MoveFile(u, f[1], f[2], t[1], t[2], names, isMoving)
                /\ Served([op |-> "MoveFile", user |-> u])
    \/ Idle /\ \E u \in Registered, names \in SUBSET FileNames :
            DeleteFiles(u, names) /\ Served([op |-> "DeleteFiles", user |-> u])
    \/ Idle /\ \E u \in Registered, cutoff \in Times :
            EmptyTrash(u, cutoff)
                /\ Served([op |-> "EmptyTrash", user |-> u, cutoff |-> cutoff])
    \/ Idle /\ Tick /\ Served([op |-> "Tick"])

SpecTrash == Init /\ [][NextTrash]_vars

\* The number of entries of the file map fs whose file blob, and whose
\* thumbnail blob, is b.
FileRefs(fs, b) == Cardinality({n \in DOMAIN fs : fs[n].StoreFile = b})
ThumbRefs(fs, b) == Cardinality({n \in DOMAIN fs : fs[n].StoreThumb = b})

\* C23: EmptyTrash(cutoff) removes from the Trash exactly the entries whose
\* dateCreated is at most cutoff and keeps those created later, leaves the
\* Gallery and the album file-sets as they are, and takes one from the
\* refcount of the file blob and of the thumbnail blob of each entry removed.
C23_EmptyTrash ==
    [][quLast'.op = "EmptyTrash" =>
        LET u == quLast'.user
            T == trash[u].Files
            T1 == trash'[u].Files
            old == {n \in DOMAIN T : T[n].DateCreated <= quLast'.cutoff}
            gone == [n \in old |-> T[n]]
        IN  /\ DOMAIN T1 = DOMAIN T \ old
            /\ \A n \in DOMAIN T1 : T1[n] = T[n] /\ T1[n].DateCreated > quLast'.cutoff
            /\ gallery' = gallery
            /\ albums' = albums
            /\ \A b \in Blobs :
                    refcount'[b] = refcount[b] - FileRefs(gone, b) - ThumbRefs(gone, b)]_vars

\* EmptyTrash with a cutoff before now removed an entry of the Trash and
\* kept the one created after the cutoff, while the Gallery holds a file.
C23_Witness ==
    /\ quLast.op = "EmptyTrash"
    /\ quLast.cutoff < now
    /\ \E n \in DOMAIN trash[quLast.user].Files :
            trash[quLast.user].Files[n].DateCreated > quLast.cutoff
    /\ \E b \in Blobs : b \in blobsOnDisk /\ refcount[b] = 1

\* C25: an album is removed only when its file-set is empty: removeAlbum of
\* an album that holds files fails and leaves the album list and the
\* album's file-set as they are.
C25_RemoveEmptyOnly ==
    LET st == ClientStore IN
    \A d \in GlobDirs(st) :
        d.Album # NilAlbum =>
            LET fs == st.fs[d.FileSet]
                r == removeAlbum(st, d)
            IN  /\ (fs # NoFile /\ DOMAIN fs.Files # {}) =>
                    /\ r.err \in {"album is not empty", Blocked}
                    /\ r.st = st
                /\ r.err = "" =>
                    /\ fs # NoFile /\ DOMAIN fs.Files = {}
                    /\ d.Album.AlbumID \notin DOMAIN r.st.al

\* RemoveAlbums of an album the caller owns was refused because the album
\* holds a file: the album and the file are still there.
C25_Witness ==
    /\ cLast.op = "RemoveAlbums"
    /\ cLast.err = "album is not empty"
    /\ \E a \in DOMAIN cAl :
            /\ cAl[a].IsOwner
            /\ cFS[albumPrefix(a)] # NoFile
            /\ DOMAIN cFS[albumPrefix(a)].Files # {}

\* Some file-set of fs holds the file n.
Visible(fs, n) == \E x \in ClientFileSets : fs[x] # NoFile /\ n \in DOMAIN fs[x].Files

\* The trash of fs holds the file n.
Trashed(fs, n) == n \in DOMAIN fs[trashFile].Files

\* C24: Delete of a file that is not in the trash moves it to the trash and
\* never removes it outright; only a file that is in the trash is removed
\* for good, so that a file leaves the user's view only from the trash.
C24_DeleteViaTrash ==
    /\ [](LET st == ClientStore IN
          \A si \in Sources : \A order \in Orders(GroupKeys(si)) :
            LET r == Delete(st, si, order) IN
            \A i \in DOMAIN si :
                (~si[i].IsDir /\ ~Trashed(st.fs, si[i].FSFile.File)) =>
                    /\ Visible(r.st.fs, si[i].FSFile.File)
                    /\ r.err = "" => /\ Trashed(r.st.fs, si[i].FSFile.File)
                                     /\ si[i].FSFile.File \notin
                                            DOMAIN r.st.fs[si[i].FileSet].Files)
    /\ [][\A n \in ClientFiles :
            (Visible(cFS, n) /\ ~Visible(cFS', n)) =>
                Trashed(cFS, n) /\ cLast'.op = "Delete"]_vars

\* A file was moved to the trash by one Delete and removed for good by the
\* next.
C24_Witness ==
    /\ cLast.op = "Delete"
    /\ cLast.err = ""
    /\ cLast.from = {trashFile}
    /\ \E n \in ClientFiles : ~Visible(cFS, n)
    /\ cOps = MaxClientOps
    /\ cAl = <<>>

\* The directory that holds the file item.
DirOf(item) == DirItem(item.Set, item.Album, item.FileSet)

\* C26: every entry of a file-set is filed under its own file, so that no
\* file-set holds a file under two names, and a Copy of a file to a new
\* name in the file's own directory is rejected.
C26_OneNamePerFile ==
    LET st == ClientStore IN
    /\ \A x \in ClientFileSets : st.fs[x] # NoFile =>
            \A n \in DOMAIN st.fs[x].Files : st.fs[x].Files[n].File = n
    /\ \A item \in GlobFiles(st), samePtr \in BOOLEAN, aid \in DrawnAlbumIDs :
            (item.Set # TrashSet /\ ~CopyDenied(item)) =>
                LET r == Copy(st, <<item>>,
                              [di |-> <<>>, parent |-> <<DirOf(item)>>, file |-> "r"],
                              aid, FALSE, samePtr, <<GroupKey(item)>>)
                IN  r.err # "" /\ r.st.fs = st.fs

-----------------------------------------------------------------------------
\* The delete-event logs: accounts, contacts, albums and the removals that
\* append to the logs, with the clock of the queries.
NextLog ==
    \/ Idle /\ \E a \in Accounts :
            /\ a[2] = MinUserID + registrations
            /\ AddUser(a[1], a[2])
            /\ Served([op |-> "AddUser"])
    \/ Idle /\ \E u \in ul, e \in Emails :
            AddContact(UserByID(u.UserID), e) /\ Served([op |-> "AddContact"])
    \/ Idle /\ now > 0 /\ \E u \in Registered, a \in FreshAlbums :
            AddAlbum(u, a) /\ Served([op |-> "AddAlbum"])
    \/ Idle /\ DeletesLeft /\ \E u \in Registered, a \in AlbumIDs :
            DeleteAlbum(u, a) /\ Served([op |-> "DeleteAlbum"])
    \/ Idle /\ DeletesLeft /\ \E u \in Registered :
            DeleteUserList(u) /\ Served([op |-> "DeleteUser"])
    \/ DeleteUserContacts /\ Served(quLast)
    \/ DeleteUserAlbums /\ Served(quLast)
    \/ DeleteUserFiles /\ Served(quLast)
    \/ DeleteUserRemove /\ Served(quLast)
    \/ Idle /\ Advance /\ Served([op |-> "Advance"])

SpecLog == Init /\ [][NextLog]_vars

\* The log new is the log old with events appended, none of them dated
\* before an event that precedes it.
LogGrows(old, new) ==
    /\ Len(new) >= Len(old)
    /\ SubSeq(new, 1, Len(old)) = old
    /\ \A i \in (Len(old) + 1) .. Len(new) : \A j \in 1 .. (i - 1) : new[j].Date <= new[i].Date

\* C27: the delete-event logs of a user, of its contacts and of its albums,
\* only grow: no step removes, reorders or rewrites an event of a log, and
\* every event appended is dated no earlier than the events before it.
C27_DeleteLogAppendOnly ==
    [][\A u \in UIDs :
            /\ (contactList[u] # NoFile /\ contactList'[u] # NoFile) =>
                    LogGrows(contactList[u].Deletes, contactList'[u].Deletes)
            /\ (manifest[u] # NoFile /\ manifest'[u] # NoFile) =>
                    LogGrows(manifest[u].Deletes, manifest'[u].Deletes)]_vars

\* A user has two contact delete events of different dates and an album
\* delete event.
C27_Witness ==
    \E u \in UIDs :
        /\ contactList[u] # NoFile
        /\ manifest[u] # NoFile
        /\ Len(contactList[u].Deletes) >= 2
        /\ contactList[u].Deletes[1].Date < contactList[u].Deletes[Len(contactList[u].Deletes)].Date
        /\ Len(manifest[u].Deletes) >= 1

-----------------------------------------------------------------------------
\* The master key (package masterkey): the encryption of the records.
\* A record is iv | CBC(key, padSize | data | random tail) | Hash(encData).

NumMasterKeys == 2
MaxMsgLen == 17
NumMsgs == 2
NumIVs == 2

BlockSize == 16
HashSize == 32

\* n bytes that a seed determines: the keys, messages and random bytes drawn.
Pattern(n, seed) == [i \in 1 .. n |-> (seed * 89 + i * 7 + (i * i) * seed) % 256]

MasterKeys == {Pattern(32, k) : k \in 1 .. NumMasterKeys}
Messages == {Pattern(n, 10 + s) : n \in 0 .. MaxMsgLen, s \in 1 .. NumMsgs}
IVs == {Pattern(BlockSize, 20 + s) : s \in 1 .. NumIVs}
RandomTail == Pattern(BlockSize, 31)

\* a ^ b on bytes.
RECURSIVE XorByte(_, _)
XorByte(a, b) ==
    IF a = 0 THEN b
    ELSE IF b = 0 THEN a
    ELSE ((a + b) % 2) + 2 * XorByte(a \div 2, b \div 2)

XorBlock(x, y) == [i \in 1 .. BlockSize |-> XorByte(x[i], y[i])]

\* The block cipher under a key: a permutation of the blocks, and its
\* inverse.
BlockEncrypt(key, b) ==
    [i \in 1 .. BlockSize |-> (b[(i % BlockSize) + 1] + key[i] + key[i + BlockSize]) % 256]

BlockDecrypt(key, c) ==
    [j \in 1 .. BlockSize |->
        LET i == ((j + BlockSize - 2) % BlockSize) + 1
        IN  (c[i] + 512 - key[i] - key[i + BlockSize]) % 256]

\* cipher.NewCBCEncrypter(block, iv).CryptBlocks over whole blocks.
RECURSIVE CBCEncrypt(_, _, _)
CBCEncrypt(key, iv, p) ==
    IF Len(p) = 0 THEN <<>>
    ELSE LET c == BlockEncrypt(key, XorBlock(SubSeq(p, 1, BlockSize), iv))
         IN  c \o CBCEncrypt(key, c, SubSeq(p, BlockSize + 1, Len(p)))

\* cipher.NewCBCDecrypter(block, iv).CryptBlocks over whole blocks.
RECURSIVE CBCDecrypt(_, _, _)
CBCDecrypt(key, iv, c) ==
    IF Len(c) = 0 THEN <<>>
    ELSE XorBlock(BlockDecrypt(key, SubSeq(c, 1, BlockSize)), iv)
            \o CBCDecrypt(key, SubSeq(c, 1, BlockSize), SubSeq(c, BlockSize + 1, Len(c)))

RECURSIVE SumFrom(_, _)
SumFrom(b, i) == IF i > Len(b) THEN 0 ELSE b[i] + SumFrom(b, i + HashSize)

\* Hash: the keyed digest of b, HashSize bytes. Every byte of b counts in
\* one byte of the digest, so two inputs that differ in one byte have two
\* digests.
MasterKeyHash(key, b) == [i \in 1 .. HashSize |-> (key[i] + Len(b) + SumFrom(b, i)) % 256]

\* Encrypt with a padding of 0..15 bytes, as many as fill the last block.
EncryptFillBlock(key, data, iv, rnd) ==
    LET padSize == 15 - (Len(data) % 16)
        pData == <<padSize>> \o data \o SubSeq(rnd, 1, padSize)
        encData == CBCEncrypt(key, iv, pData)
    IN  [err |-> "", data |-> iv \o encData \o MasterKeyHash(key, encData)]

\* Encrypt, with the bytes rand.Reader gives for the iv and for the padding.
Encrypt(key, data, iv, rnd) ==
    IF Len(key) = 0 THEN [err |-> "master key is not set", data |-> <<>>]
    ELSE LET padSize == 16 - ((Len(data) + 1) % 16)
             pData == <<padSize>> \o data \o SubSeq(rnd, 1, padSize)
             encData == CBCEncrypt(key, iv, pData)
             hmac == MasterKeyHash(key, encData)
         IN  [err |-> "", data |-> iv \o encData \o hmac]

\* NewEncryptedKey: a key of 32 bytes of rand.Reader, encrypted.
EncryptedKeySize == 96

NewEncryptedKey(key, newKey, iv, rnd) == Encrypt(key, newKey, iv, rnd)

\* Decrypt that takes the size of the padding from the last byte.
DecryptPadLast(key, data) ==
    LET iv == SubSeq(data, 1, BlockSize)
        encData == SubSeq(data, BlockSize + 1, Len(data) - 32)
        dec == CBCDecrypt(key, iv, encData)
        padSize == dec[Len(dec)]
    IN  IF SubSeq(data, Len(data) - 31, Len(data)) # MasterKeyHash(key, encData)
        THEN [err |-> "invalid hmac", data |-> <<>>]
        ELSE IF Len(dec) - padSize < 1 THEN [err |-> "panic", data |-> <<>>]
        ELSE [err |-> "", data |-> SubSeq(dec, 2, Len(dec) - padSize)]

\* Decrypt. A slice or an index out of range, and blocks that are not
\* whole, make the call panic.
Decrypt(key, data) ==
    IF Len(key) = 0 THEN [err |-> "master key is not set", data |-> <<>>]
    ELSE IF Len(data) < BlockSize + 32 THEN [err |-> "panic", data |-> <<>>]
    ELSE LET iv == SubSeq(data, 1, BlockSize)
             encData == SubSeq(data, BlockSize + 1, Len(data) - 32)
             hm == SubSeq(data, Len(data) - 31, Len(data))
         IN  IF hm # MasterKeyHash(key, encData) THEN [err |-> "invalid hmac", data |-> <<>>]
             ELSE IF Len(encData) % BlockSize # 0 \/ Len(encData) = 0
                  THEN [err |-> "panic", data |-> <<>>]
             ELSE LET dec == CBCDecrypt(key, iv, encData)
                      padSize == dec[1]
                  IN  IF Len(dec) - padSize < 1 THEN [err |-> "panic", data |-> <<>>]
                      ELSE [err |-> "", data |-> SubSeq(dec, 2, Len(dec) - padSize)]

\* The record with bit n flipped, the bits counted from the first byte.
FlipBit(data, n) == [data EXCEPT ![(n \div 8) + 1] = XorByte(@, 2 ^ (n % 8))]

\* Create: the key is 32 bytes of rand.Reader.
Create ==
    /\ mk = <<>>
    /\ \E k \in MasterKeys : mk' = k
    /\ UNCHANGED <<mkMsg, mkData, mkFlip, mkDec, mkFile, mkRead>>

EncryptRecord ==
    /\ mk # <<>>
    /\ mkData = <<>>
    /\ \E m \in Messages, iv \in IVs :
            /\ mkMsg' = m
            /\ mkData' = Encrypt(mk, m, iv, RandomTail).data
    /\ UNCHANGED <<mk, mkFlip, mkDec, mkFile, mkRead>>

NewEncryptedKeyRecord ==
    /\ mk # <<>>
    /\ mkData = <<>>
    /\ \E k \in MasterKeys, iv \in IVs :
            /\ mkMsg' = k
            /\ mkData' = NewEncryptedKey(mk, k, iv, RandomTail).data
    /\ UNCHANGED <<mk, mkFlip, mkDec, mkFile, mkRead>>

\* The stored record is damaged in one bit.
Tamper ==
    /\ mkData # <<>>
    /\ mkFlip = -1
    /\ mkDec = NoFile
    /\ \E n \in 0 .. (8 * Len(mkData) - 1) :
            /\ mkFlip' = n
            /\ mkData' = FlipBit(mkData, n)
    /\ UNCHANGED <<mk, mkMsg, mkDec, mkFile, mkRead>>

DecryptRecord ==
    /\ mkData # <<>>
    /\ mkDec = NoFile
    /\ mkDec' = Decrypt(mk, mkData)
    /\ UNCHANGED <<mk, mkMsg, mkData, mkFlip, mkFile, mkRead>>

NextRecords ==
    \/ Create /\ UNCHANGED <<dbVars, txVars, clVars, auVars, quVars, acVars>>
    \/ EncryptRecord /\ UNCHANGED <<dbVars, txVars, clVars, auVars, quVars, acVars>>
    \/ NewEncryptedKeyRecord /\ UNCHANGED <<dbVars, txVars, clVars, auVars, quVars, acVars>>
    \/ Tamper /\ UNCHANGED <<dbVars, txVars, clVars, auVars, quVars, acVars>>
    \/ DecryptRecord /\ UNCHANGED <<dbVars, txVars, clVars, auVars, quVars, acVars>>

SpecRecords == Init /\ [][NextRecords]_vars

\* C28: Decrypt of what Encrypt returned for a message, under the same key,
\* returns the message and no error, whatever the key and the length of the
\* message, the empty message and the lengths around a whole block included.
C28_RoundTrip ==
    (mkDec # NoFile /\ mkFlip = -1) => mkDec = [err |-> "", data |-> mkMsg]

\* A message of 15 bytes, which fills the first block with its size byte and
\* takes a whole block of padding, came back from Decrypt.
C28_Witness ==
    /\ mkDec # NoFile
    /\ mkFlip = -1
    /\ Len(mkMsg) = BlockSize - 1
    /\ Len(mkData) = BlockSize + 2 * BlockSize + HashSize
    /\ mkDec.data = mkMsg

\* C29: after one bit of an encrypted record was flipped, in the iv, in the
\* encrypted data or in the hmac, Decrypt fails with "invalid hmac" and
\* returns no data.
C29_AnyFlipBadMAC ==
    (mkDec # NoFile /\ mkFlip # -1) => mkDec = [err |-> "invalid hmac", data |-> <<>>]

-----------------------------------------------------------------------------
\* The master key on disk: Save wraps the key under a key derived from the
\* passphrase, Read unwraps it.

NumSalts == 2
NumNonces == 2

\* "", "foo", "bar", "foo" with a zero byte, and one zero byte.
Passphrases == {<<>>, <<102, 111, 111>>, <<98, 97, 114>>, <<102, 111, 111, 0>>, <<0>>}
Salts == 1 .. NumSalts
Nonces == 1 .. NumNonces

\* binary.LittleEndian.PutUint32 and Uint32.
PutUint32(n) == <<n % 256, (n \div 256) % 256, (n \div 65536) % 256, (n \div 16777216) % 256>>
Uint32(b) == b[1] + 256 * b[2] + 65536 * b[3] + 16777216 * b[4]

\* The key HMAC-SHA-256 works with (RFC 2104): a key longer than the 64
\* bytes of a block of the hash is replaced by its hash, and the key is
\* then filled with zero bytes up to the 64 bytes.
hmacKey(key) ==
    IF Len(key) > 64 THEN [sha256 |-> key]
    ELSE [i \in 1 .. 64 |-> IF i <= Len(key) THEN key[i] ELSE 0]

\* pbkdf2.Key(password, salt, iter, keyLen, sha256.New): what the iterated
\* HMAC under the password gives for the salt; two derivations give one key
\* only if HMAC has the same key, salt, count and length in both.
pbkdf2Key(password, salt, iter, keyLen) ==
    [prf |-> hmacKey(password), salt |-> salt, iter |-> iter, keyLen |-> keyLen]

\* gcm.Seal and gcm.Open without additional data: Open returns what was
\* sealed under the same key and nonce and fails under any other.
gcmSeal(dk, nonce, plaintext) == [key |-> dk, nonce |-> nonce, sealed |-> plaintext]

gcmOpen(dk, nonce, ciphertext) ==
    IF ciphertext.key = dk /\ ciphertext.nonce = nonce
    THEN [err |-> "", data |-> ciphertext.sealed]
    ELSE [err |-> "cipher: message authentication failed", data |-> <<>>]

\* Save: the bytes written to the file, with the salt and the nonce that
\* rand.Reader gives.
Save(key, passphrase, salt, nonce) ==
    LET numIter == IF passphrase = <<>> THEN 10 ELSE 200000
        numIterBin == PutUint32(numIter)
        dk == pbkdf2Key(passphrase, salt, numIter, 32)
        encMasterKey == gcmSeal(dk, nonce, key)
    IN  [version |-> 1, salt |-> salt, numIter |-> numIterBin, nonce |-> nonce,
         encMasterKey |-> encMasterKey]

\* Read that returns what is sealed in the file without opening it.
ReadSealed(passphrase, b) == [err |-> "", key |-> b.encMasterKey.sealed]

\* Read of the bytes b of the file.
Read(passphrase, b) ==
    IF b.version # 1 THEN [err |-> "unexpected master key version", key |-> <<>>]
    ELSE LET numIter == Uint32(b.numIter)
             dk == pbkdf2Key(passphrase, b.salt, numIter, 32)
             opened == gcmOpen(dk, b.nonce, b.encMasterKey)
         IN  IF opened.err # "" THEN [err |-> opened.err, key |-> <<>>]
             ELSE [err |-> "", key |-> opened.data]

SaveKey ==
    /\ mk # <<>>
    /\ mkFile = NoFile
    /\ \E p \in Passphrases, salt \in Salts, nonce \in Nonces :
            mkFile' = [passphrase |-> p, bytes |-> Save(mk, p, salt, nonce)]
    /\ UNCHANGED <<mk, mkMsg, mkData, mkFlip, mkDec, mkRead>>

ReadKey ==
    /\ mkFile # NoFile
    /\ mkRead = NoFile
    /\ \E p \in Passphrases :
            mkRead' = [passphrase |-> p, out |-> Read(p, mkFile.bytes)]
    /\ UNCHANGED <<mk, mkMsg, mkData, mkFlip, mkDec, mkFile>>

NextKeyFile ==
    \/ Create /\ UNCHANGED <<dbVars, txVars, clVars, auVars, quVars, acVars>>
    \/ SaveKey /\ UNCHANGED <<dbVars, txVars, clVars, auVars, quVars, acVars>>
    \/ ReadKey /\ UNCHANGED <<dbVars, txVars, clVars, auVars, quVars, acVars>>

SpecKeyFile == Init /\ [][NextKeyFile]_vars

\* The passphrases p and q are the same bytes once the zero bytes at their
\* ends are dropped.
SameButZeros(p, q) ==
    \A i \in 1 .. (Len(p) + Len(q)) :
        (IF i <= Len(p) THEN p[i] ELSE 0) = (IF i <= Len(q) THEN q[i] ELSE 0)

\* C30 as stated: Read of the file that Save wrote for the key k with the
\* passphrase p0 returns k if the passphrase given to Read is p0, and with
\* any other passphrase it returns an error and no key.
C30_ReadIffSamePassphrase ==
    mkRead # NoFile =>
        IF mkRead.passphrase = mkFile.passphrase
        THEN mkRead.out = [err |-> "", key |-> mk]
        ELSE mkRead.out.err # "" /\ mkRead.out.key = <<>>

\* C30: Read of the file that Save wrote for the key k with the passphrase
\* p0 returns k if the passphrase given to Read is p0 or differs from p0
\* only in zero bytes at the end, and with any other passphrase it returns
\* an error and no key.
C30_ReadIffSameHmacKey ==
    mkRead # NoFile =>
        IF SameButZeros(mkRead.passphrase, mkFile.passphrase)
        THEN mkRead.out = [err |-> "", key |-> mk]
        ELSE mkRead.out.err # "" /\ mkRead.out.key = <<>>

\* The key saved with "foo" was read with "foo" followed by a zero byte.
C30_Witness ==
    /\ mkRead # NoFile
    /\ mkFile.passphrase = <<102, 111, 111>>
    /\ mkRead.passphrase = <<102, 111, 111, 0>>
    /\ mkRead.out.key = mk

-----------------------------------------------------------------------------
\* C31: Encrypt of n bytes returns 16 + (n + 1 + N) + 32 bytes, where the
\* size N of the padding is in 1..16 and n + 1 + N is a multiple of 16, and
\* NewEncryptedKey returns EncryptedKeySize bytes.
C31_EncryptedSize ==
    mkData # <<>> =>
        LET n == Len(mkMsg)
            N == Len(mkData) - BlockSize - HashSize - n - 1
        IN  /\ N \in 1 .. 16
            /\ (n + 1 + N) % 16 = 0
            /\ (n = 32 => Len(mkData) = EncryptedKeySize)

\* An encrypted key, and before any damage the size the record itself names.
C31_Witness ==
    /\ Len(mkMsg) = 32
    /\ Len(mkData) = EncryptedKeySize
    /\ mkDec # NoFile
    /\ mkDec.data = mkMsg

\* The inputs of fewer than 64 bytes given to Decrypt: what is left of a
\* record that was cut short, and an iv followed by the hash of no data.
ShortInputs ==
    {SubSeq(mkData, 1, n) : n \in 0 .. (BlockSize + BlockSize + HashSize - 1)}
        \cup {SubSeq(mkData, 1, BlockSize) \o MasterKeyHash(mk, <<>>)}

\* C32: Decrypt of an input shorter than the iv, one block and the hash
\* together (64 bytes) returns the error of a short ciphertext, which is
\* neither the error of a wrong hmac nor a panic, and returns no data.
C32_ShortCiphertext ==
    mkData # <<>> =>
        \A d \in ShortInputs :
            LET r == Decrypt(mk, d)
            IN  r.err \notin {"", "panic", "invalid hmac"} /\ r.data = <<>>

-----------------------------------------------------------------------------
\* The users that removeAllContacts(u) visits besides u.
Peers(u) == (DOMAIN contactList[u].Contacts \cup contactList[u].In) \ {u}

\* The events that a step appended to the contact list of x.
NewDeletes(x) ==
    SubSeq(contactList'[x].Deletes, Len(contactList[x].Deletes) + 1, Len(contactList'[x].Deletes))

\* What removeAllContacts(u) leaves in the list of the peer p.
PeerCleared(u, p) ==
    /\ u \notin DOMAIN contactList'[p].Contacts
    /\ u \notin contactList'[p].In
    /\ NewDeletes(p) = <<[File |-> u, Date |-> now, Type |-> DeleteEventContact]>>

\* C33: removeAllContacts(u) changes the lists of u and of its peers in one
\* step; every peer has u removed from its contacts and in and gains one
\* delete event of type contact that names u; the list of u has every peer
\* removed from its contacts and in and gains one delete event of type
\* contact for each peer, and none that names u.
C33_RemoveAllContacts ==
    [][(pc = "contacts" /\ pc' = "albums") =>
        LET u == duUser IN
        /\ \A p \in Peers(u) : PeerCleared(u, p)
        /\ \A x \in UIDs \ (Peers(u) \cup {u}) : contactList'[x] = contactList[x]
        /\ DOMAIN contactList'[u].Contacts \cap Peers(u) = {}
        /\ contactList'[u].In \cap Peers(u) = {}
        /\ Len(NewDeletes(u)) = Cardinality(Peers(u))
        /\ \A p \in Peers(u) :
              Cardinality({i \in DOMAIN NewDeletes(u) : NewDeletes(u)[i].File = p}) = 1
        /\ \A i \in DOMAIN NewDeletes(u) :
              NewDeletes(u)[i].File # u /\ NewDeletes(u)[i].Type = DeleteEventContact]_vars

-----------------------------------------------------------------------------
\* moveFiles item by item.  w holds the two file-sets as they are in memory
\* between OpenForUpdate and commit; when source and destination are one
\* file-set, fs[0] and fs[1] are one object and w.from = w.to.

\* The body of moveFiles' loop for item.
MoveItemStep(w, item, toAlbumID, fromAlbumID, rename, moving, needHeaders, same) ==
    LET ff == item.FSFile
        from1 == IF moving THEN MapDelete(w.from, ff.File) ELSE w.from
        to1 == IF same THEN from1 ELSE w.to
        moved == [ff EXCEPT !.Headers = IF needHeaders
                                        THEN [key |-> toAlbumID,
                                              name |-> IF rename # "" THEN rename ELSE @.name]
                                        ELSE @,
                            !.DateModified = now,
                            !.AlbumID = toAlbumID]
        to2 == MapPut(to1, ff.File, moved)
    IN  IF moving /\ NotOwner(item)
        THEN [w EXCEPT !.err = "only the album owner can move files"]
        ELSE IF needHeaders /\ ff.Headers.key # fromAlbumID
        THEN [from |-> from1, to |-> to1, err |-> "DecryptBase64Headers", done |-> w.done]
        ELSE [from |-> IF same THEN to2 ELSE from1, to |-> to2, err |-> "",
              done |-> w.done + 1]

RECURSIVE MoveItemLoop(_, _, _, _, _, _, _, _, _)
MoveItemLoop(w, fromItems, i, toAlbumID, fromAlbumID, rename, moving, needHeaders, same) ==
    IF i > Len(fromItems) \/ w.err # "" THEN w
    ELSE MoveItemLoop(MoveItemStep(w, fromItems[i], toAlbumID, fromAlbumID, rename,
                                   moving, needHeaders, same),
                      fromItems, i + 1, toAlbumID, fromAlbumID, rename, moving,
                      needHeaders, same)

\* What is in memory when moveFiles' loop ends or returns.
moveFilesLoop(st, fromItems, toItem, rename, moving) ==
    LET first == fromItems[1]
        fromAlbumID == AlbumIDOf(first.Album)
        toAlbumID == AlbumIDOf(toItem.Album)
        same == first.Set = toItem.Set /\ fromAlbumID = toAlbumID
        needHeaders == first.Album # NilAlbum \/ toItem.Album # NilAlbum \/ rename # ""
        w0 == [from |-> st.fs[first.FileSet].Files, to |-> st.fs[toItem.FileSet].Files,
               err |-> "", done |-> 0]
    IN  MoveItemLoop(w0, fromItems, 1, toAlbumID, fromAlbumID, rename, moving,
                     needHeaders, same)

\* What moveFiles' checks before the loop return, "" when they pass.
moveFilesOpens(st, fromItems, toItem, rename) ==
    LET first == fromItems[1]
        same == first.Set = toItem.Set /\ AlbumIDOf(first.Album) = AlbumIDOf(toItem.Album)
        names == IF same THEN {first.FileSet} ELSE {first.FileSet, toItem.FileSet}
    IN  IF same /\ rename = "" THEN "source and destination are the same"
        ELSE IF rename # "" /\ Len(fromItems) # 1 THEN "can only rename one file at a time"
        ELSE IF names \cap st.locks # {} THEN Blocked
        ELSE IF \E n \in names : st.fs[n] = NoFile THEN "fileSetsForUpdate"
        ELSE ""

\* moveFiles that writes the file-sets as they are in memory when it fails.
moveFilesCommitAlways(st, fromItems, toItem, rename, moving) ==
    LET w == moveFilesLoop(st, fromItems, toItem, rename, moving)
        e == moveFilesOpens(st, fromItems, toItem, rename)
    IN  IF e # "" THEN R(st, e)
        ELSE R([st EXCEPT !.fs[fromItems[1].FileSet].Files = w.from,
                          !.fs[toItem.FileSet].Files = w.to], w.err)

\* moveFiles that renames however many files it is given.
moveFilesRenameMany(st, fromItems, toItem, rename, moving) ==
    LET w == moveFilesLoop(st, fromItems, toItem, rename, moving)
        first == fromItems[1]
        same == first.Set = toItem.Set /\ AlbumIDOf(first.Album) = AlbumIDOf(toItem.Album)
    IN  IF same /\ rename = "" THEN R(st, "source and destination are the same")
        ELSE IF {first.FileSet, toItem.FileSet} \cap st.locks # {} THEN R(st, Blocked)
        ELSE IF st.fs[first.FileSet] = NoFile \/ st.fs[toItem.FileSet] = NoFile
        THEN R(st, "fileSetsForUpdate")
        ELSE IF w.err # "" THEN R(st, w.err)
        ELSE R([st EXCEPT !.fs[first.FileSet].Files = w.from,
                          !.fs[toItem.FileSet].Files = w.to], "")

\* moveFiles with its loop: the deferred commit(false, &retErr) of a return
\* with an error writes nothing, commit(true, nil) writes both file-sets.
moveFilesByItem(st, fromItems, toItem, rename, moving) ==
    LET w == moveFilesLoop(st, fromItems, toItem, rename, moving)
        e == moveFilesOpens(st, fromItems, toItem, rename)
    IN  IF e # "" THEN R(st, e)
        ELSE IF w.err # "" THEN R(st, w.err)
        ELSE R([st EXCEPT !.fs[fromItems[1].FileSet].Files = w.from,
                          !.fs[toItem.FileSet].Files = w.to], "")

\* Headers that do not decrypt under the key of their file-set.
Damage(ff) == [ff EXCEPT !.Headers.key = -1]

\* The store and the items si when the headers of the files of bad are
\* damaged.
DamagedStore(st, si, bad) ==
    [st EXCEPT !.fs[si[1].FileSet].Files =
        [n \in DOMAIN @ |-> IF n \in bad THEN Damage(@[n]) ELSE @[n]]]

DamagedItems(si, bad) ==
    [i \in DOMAIN si |->
        IF si[i].FSFile.File \in bad THEN [si[i] EXCEPT !.FSFile = Damage(@)] ELSE si[i]]

LoopErrors == {"only the album owner can move files", "DecryptBase64Headers"}

\* C34: when moveFiles fails after it has opened its file-sets, on the
\* owner check or on the headers of any item, the source and the destination
\* file-set are as they were, whatever was done for the items before the
\* failing one.
C34_MoveFilesAllOrNothing ==
    LET st0 == ClientStore
        srcs == Sources
        dirs == DestDirs
    IN  \A si \in srcs :
            IsFileGroup(si) =>
                \A dst \in dirs, moving \in BOOLEAN, rename \in {"", "r"},
                   bad \in SUBSET {si[i].FSFile.File : i \in DOMAIN si} :
                    LET st == DamagedStore(st0, si, bad)
                        r == moveFilesByItem(st, DamagedItems(si, bad), dst, rename, moving)
                    IN  r.err \in LoopErrors => r.st = st

\* Two files of the gallery are moved to an album and the headers of the
\* second do not decrypt: the first is out of the gallery and in the album
\* in memory when moveFiles returns the error.
C34_Witness ==
    \E si \in Sources, dst \in DestDirs :
        /\ IsFileGroup(si)
        /\ Len(si) = 2
        /\ si[1].Set = GallerySet
        /\ dst.Set = AlbumSet
        /\ LET bad == {si[2].FSFile.File}
               st == DamagedStore(ClientStore, si, bad)
               w == moveFilesLoop(st, DamagedItems(si, bad), dst, "", TRUE)
           IN  /\ moveFilesByItem(st, DamagedItems(si, bad), dst, "", TRUE).err
                        = "DecryptBase64Headers"
               /\ w.done = 1
               /\ si[1].FSFile.File \notin DOMAIN w.from
               /\ si[1].FSFile.File \in DOMAIN w.to

-----------------------------------------------------------------------------
\* The preconditions of Move and Copy that the files si and the directory
\* dst violate, by their number: (1) a file is in dst already and there is
\* no rename, (2) a file is moved out of an album of someone else, (3) dst
\* is an album of someone else that does not allow adding, (4) the trash is
\* the source or the destination of a Copy.
Violated(si, dst, moving) ==
    {n \in 1 .. 4 :
        \/ n = 1 /\ \E i \in DOMAIN si : GroupKey(si[i]) = GroupKey(dst)
        \/ n = 2 /\ moving /\ MoveDenied(si)
        \/ n = 3 /\ AddDenied(dst)
        \/ n = 4 /\ ~moving /\ (HasTrash(si) \/ dst.Set = TrashSet)}

\* The errors of the precondition n.
PreconditionErrors(n) ==
    CASE n = 1 -> {"source and destination are the same"}
      [] n = 2 -> {"moving is not allowed", "only the album owner can move files"}
      [] n = 3 -> {"adding is not allowed"}
      [] n = 4 -> {"cannot copy from trash, only move", "cannot copy to trash, only move"}

\* The lowest number of S.
Lowest(S) == CHOOSE n \in S : \A m \in S : n <= m

\* Move or Copy of the files si to the directory dst.
MoveOrCopy(st, si, dst, moving, order) ==
    LET dest == [di |-> <<dst>>, parent |-> <<>>, file |-> ""]
    IN  IF moving THEN Move(st, si, dest, 0, FALSE, "a", FALSE, order)
        ELSE Copy(st, si, dest, 0, FALSE, TRUE, order)

\* Source files that the caller may copy.
CopiableFiles(si) ==
    /\ Len(si) > 0
    /\ \A i \in DOMAIN si : ~si[i].IsDir /\ ~CopyDenied(si[i])

\* C35: when a Move or a Copy violates several of the preconditions (1) to
\* (4), the error returned is that of the one with the lowest number, and
\* the store is unchanged.
C35_PreconditionOrder ==
    LET st == ClientStore
        srcs == Sources
        dirs == DestDirs
    IN  \A si \in srcs :
            CopiableFiles(si) =>
                \A dst \in dirs, moving \in BOOLEAN :
                    \A order \in Orders(GroupKeys(si)) :
                        LET r == MoveOrCopy(st, si, dst, moving, order)
                            v == Violated(si, dst, moving)
                        IN  (v # {} /\ r.err # Blocked) =>
                                /\ r.err \in PreconditionErrors(Lowest(v))
                                /\ r.st = st

-----------------------------------------------------------------------------
\* C36: moveFiles accepts a rename only with exactly one source item; after
\* a move or a copy with rename the entry is in the destination file-set
\* under the file's own identifier, with the new name as the filename of its
\* headers, and no entry is filed under the new name; a rename with more
\* than one source item fails and changes no file-set.
C36_RenameOneFile ==
    LET st == ClientStore
        srcs == Sources
        dirs == DestDirs
    IN  \A si \in srcs :
            IsFileGroup(si) =>
                \A dst \in dirs, moving \in BOOLEAN :
                    LET r == moveFilesByItem(st, si, dst, "r", moving)
                        f == si[1].FSFile.File
                        D == st.fs[dst.FileSet].Files
                        D1 == r.st.fs[dst.FileSet].Files
                    IN  IF Len(si) # 1
                        THEN r.err = "can only rename one file at a time" /\ r.st = st
                        ELSE r.err = "" =>
                                /\ DOMAIN D1 = DOMAIN D \cup {f}
                                /\ D1[f].File = f
                                /\ D1[f].Headers.name = "r"
                                /\ \A n \in DOMAIN D \ {f} : D1[n] = D[n]

\* A Move with a new name for the file was carried out: the file is in an
\* album under its identifier and its headers carry the new name.
C36_Witness ==
    /\ cLast.op = "Move"
    /\ cLast.err = ""
    /\ \E a \in DOMAIN cAl : \E n \in DOMAIN cFS[albumPrefix(a)].Files :
            /\ cFS[albumPrefix(a)].Files[n].File = n
            /\ cFS[albumPrefix(a)].Files[n].Headers.name = "r"
            /\ n \notin DOMAIN cFS[galleryFile].Files

-----------------------------------------------------------------------------
\* AddContact beside DeleteUser.  AddContact reads the user directory and
\* the user's record in d.User, and opens the two contact lists afterwards
\* in addContactToUser; other requests run between the two.

\* c, err := d.User(contactEmail)
AddContactUser(user, contactEmail) ==
    /\ acReq.pc = "none"
    /\ userFile[user] # NoFile
    /\ acReq' = IF User(contactEmail) = NoFile
                THEN [pc |-> "done", user |-> user, err |-> "ErrNotExist"]
                ELSE [pc |-> "found", user |-> user, contact |-> User(contactEmail)]
    /\ UNCHANGED dbVars

\* return d.addContactToUser(user, c): OpenManyForUpdate fails when one of
\* the two lists does not exist.
AddContactCommit ==
    /\ acReq.pc = "found"
    /\ LET user == userFile[acReq.user]
           c == acReq.contact
       IN  IF \/ contactList[acReq.user] = NoFile
              \/ contactList[c.UserID] = NoFile
              \/ user = NoFile
           THEN /\ acReq' = [pc |-> "done", user |-> acReq.user, err |-> "OpenManyForUpdate"]
                /\ UNCHANGED contactList
           ELSE /\ acReq' = [pc |-> "done", user |-> acReq.user, err |-> "",
                             contact |-> c.UserID]
                /\ contactList' = addContactToUser(contactList, user, c)
    /\ UNCHANGED <<ul, userFile, manifest, gallery, trash, albums, refcount,
                   blobsOnDisk, now, registrations, pc, duUser, retErr>>

NextRace ==
    \/ Idle /\ \E a \in Accounts :
            /\ a[2] = MinUserID + registrations
            /\ AddUser(a[1], a[2])
            /\ UNCHANGED <<txVars, otherVars>>
    \/ \E u \in Registered, e \in Emails :
            AddContactUser(u, e) /\ UNCHANGED <<txVars, clVars, auVars, quVars, mkVars>>
    \/ AddContactCommit /\ UNCHANGED <<txVars, clVars, auVars, quVars, mkVars>>
    \/ pc = "idle" /\ \E u \in Registered : DeleteUserList(u) /\ UNCHANGED <<txVars, otherVars>>
    \/ DeleteUserContacts /\ UNCHANGED <<txVars, otherVars>>
    \/ DeleteUserAlbums /\ UNCHANGED <<txVars, otherVars>>
    \/ DeleteUserFiles /\ UNCHANGED <<txVars, otherVars>>
    \/ DeleteUserRemove /\ UNCHANGED <<txVars, otherVars>>
    \/ Idle /\ Tick /\ UNCHANGED <<txVars, otherVars>>

SpecRace == Init /\ [][NextRace]_vars

\* C37: once DeleteUser(A) and an AddContact that ran beside it have both
\* returned, no remaining contact list has A in its contacts or in its in,
\* and the contact list of A does not exist.
C37_NoContactOfDeleted ==
    (pc = "done" /\ acReq.pc = "done") =>
        /\ contactList[duUser] = NoFile
        /\ \A b \in UIDs :
                contactList[b] # NoFile =>
                    /\ duUser \notin DOMAIN contactList[b].Contacts
                    /\ duUser \notin contactList[b].In

-----------------------------------------------------------------------------
\* A client that follows the contact list of one user: each call passes the
\* largest dateModified the client has received (0 before the first one).

\* The cursor after a call with cursor ts that returned out.
NextCursor(ts, out) ==
    IF out = <<>> \/ MaxDateModified(out) < ts THEN ts ELSE MaxDateModified(out)

\* The client calls ContactUpdates with its cursor; list is the contact list
\* the call read.
ContactSync(user) ==
    /\ contactList[user] # NoFile
    /\ quLast.op \in {"", "ContactSync"}
    /\ quLast.op = "ContactSync" => quLast.user = user
    /\ LET ts == IF quLast.op = "ContactSync" THEN quLast.cursor ELSE 0
       IN  \E out \in ContactUpdates(contactList[user], ts) :
                quLast' = [op |-> "ContactSync", user |-> user, ts |-> ts, out |-> out,
                           list |-> contactList[user], cursor |-> NextCursor(ts, out)]
    /\ UNCHANGED <<dbVars, txVars, clVars, auVars, mkVars, acVars>>

\* Contacts are written (the clock of the server is past 0) and the client
\* follows.
NextCursorClient ==
    \/ Idle /\ \E a \in Accounts : AddUser(a[1], a[2]) /\ UNCHANGED <<txVars, otherVars>>
    \/ Idle /\ now > 0 /\ \E u \in ul, e \in Emails :
            AddContact(UserByID(u.UserID), e) /\ UNCHANGED <<txVars, otherVars>>
    \/ Idle /\ Advance /\ UNCHANGED <<txVars, otherVars>>
    \/ \E u \in Registered : ContactSync(u)

SpecCursor == Init /\ [][NextCursorClient]_vars

\* The contacts of list that were written since the list was old.
WrittenSince(old, list) ==
    {x \in DOMAIN list.Contacts :
        x \notin DOMAIN old.Contacts \/ old.Contacts[x] # list.Contacts[x]}

\* C38: a client that passes the largest dateModified it has received gets,
\* from each call, every contact entry written since its previous call, also
\* an entry written in the millisecond of the cursor.
C38_CursorMissesNothing ==
    [][(quLast.op = "ContactSync" /\ quLast.cursor > 0 /\ quLast' # quLast) =>
            \A x \in WrittenSince(quLast.list, quLast'.list) :
                \E i \in DOMAIN quLast'.out : quLast'.out[i].UserID = number(x)]_vars

-----------------------------------------------------------------------------
\* AddUser and DeleteUser step by step, beside each other, with the process
\* dying between steps.  The five records of a user are in the home folder,
\* which AddUser derives from the email alone; the model names a home by the
\* user ID that Accounts pairs with the email.

\* AddUser opens the user directory (the lock on it is held until the
\* deferred commit) and scans it for the email.
AddUserOpen(email, uid) ==
    /\ acReq.pc \in {"none", "done"}
    /\ registrations < MaxRegistrations
    /\ registrations' = registrations + 1
    /\ acReq' = IF EmailExists(ul, email)
                THEN [pc |-> "commit", email |-> email, uid |-> uid, err |-> "ErrExist"]
                ELSE [pc |-> "user", email |-> email, uid |-> uid, err |-> ""]
    /\ UNCHANGED <<ul, userFile, contactList, manifest, gallery, trash, albums,
                   refcount, blobsOnDisk, now, pc, duUser, retErr>>

\* The next call of AddUser: SaveDataFile of the user record, then
\* CreateEmptyFile of the trash, the gallery, the album manifest and the
\* contact list; CreateEmptyFile fails when the file exists, and AddUser
\* returns the error.
AddUserStep ==
    LET uid == acReq.uid
        next(to) == acReq' = [acReq EXCEPT !.pc = to]
        fail == acReq' = [acReq EXCEPT !.pc = "commit", !.err = "CreateEmptyFile"]
    IN
    /\ acReq.pc \in {"user", "trash", "gallery", "manifest", "contacts"}
    /\ IF acReq.pc = "user"
       THEN userFile' = [userFile EXCEPT ![uid] = [UserID |-> uid, Email |-> acReq.email]]
       ELSE UNCHANGED userFile
    /\ IF acReq.pc = "trash" /\ trash[uid] = NoFile
       THEN trash' = [trash EXCEPT ![uid] = EmptyFileSet]
       ELSE UNCHANGED trash
    /\ IF acReq.pc = "gallery" /\ gallery[uid] = NoFile
       THEN gallery' = [gallery EXCEPT ![uid] = EmptyFileSet]
       ELSE UNCHANGED gallery
    /\ IF acReq.pc = "manifest" /\ manifest[uid] = NoFile
       THEN manifest' = [manifest EXCEPT ![uid] = EmptyManifest]
       ELSE UNCHANGED manifest
    /\ IF acReq.pc = "contacts" /\ contactList[uid] = NoFile
       THEN contactList' = [contactList EXCEPT ![uid] = EmptyContactList]
       ELSE UNCHANGED contactList
    /\ CASE acReq.pc = "user" -> next("trash")
         [] acReq.pc = "trash" -> IF trash[uid] = NoFile THEN next("gallery") ELSE fail
         [] acReq.pc = "gallery" -> IF gallery[uid] = NoFile THEN next("manifest") ELSE fail
         [] acReq.pc = "manifest" -> IF manifest[uid] = NoFile THEN next("contacts") ELSE fail
         [] acReq.pc = "contacts" -> IF contactList[uid] = NoFile THEN next("commit") ELSE fail
    /\ UNCHANGED <<ul, albums, refcount, blobsOnDisk, now, registrations, pc, duUser, retErr>>

\* defer commit(true, &retErr): the directory is written as AddUser left it
\* in memory, with the new entry unless the email was found.
AddUserCommit ==
    /\ acReq.pc = "commit"
    /\ ul' = IF acReq.err = "ErrExist" THEN ul
             ELSE ul \cup {[UserID |-> acReq.uid, Email |-> acReq.email]}
    /\ retErr' = acReq.err
    /\ acReq' = [acReq EXCEPT !.pc = "done"]
    /\ UNCHANGED <<userFile, contactList, manifest, gallery, trash, albums,
                   refcount, blobsOnDisk, now, registrations, pc, duUser>>

\* The position of DeleteUser in its loop over the five files of the home.
RemoveSteps == <<"remove", "remove.trash", "remove.gallery", "remove.manifest",
                 "remove.contacts">>

\* One os.Remove of DeleteUser's last loop; a missing file is an error.
DeleteUserRemoveFile ==
    \E k \in DOMAIN RemoveSteps :
        LET u == duUser
            files == <<userFile, trash, gallery, manifest, contactList>>
            present == files[k][u] # NoFile
            gone(f, n) == IF k = n /\ present THEN [f EXCEPT ![u] = NoFile] ELSE f
        IN  /\ pc = RemoveSteps[k]
            /\ userFile' = gone(userFile, 1)
            /\ trash' = gone(trash, 2)
            /\ gallery' = gone(gallery, 3)
            /\ manifest' = gone(manifest, 4)
            /\ contactList' = gone(contactList, 5)
            /\ pc' = IF ~present THEN "failed"
                     ELSE IF k = Len(RemoveSteps) THEN "done" ELSE RemoveSteps[k + 1]
            /\ UNCHANGED <<ul, albums, refcount, blobsOnDisk, now, registrations,
                           duUser, retErr>>

\* The process dies and is started again: the calls that were running are
\* gone, what they wrote stays, and the directory AddUser had open was not
\* written.
ProcessDies ==
    /\ \/ pc \notin {"idle", "done", "failed"}
       \/ acReq.pc \notin {"none", "done"}
    /\ pc' = "idle"
    /\ acReq' = [pc |-> "none"]
    /\ UNCHANGED <<ul, userFile, contactList, manifest, gallery, trash, albums,
                   refcount, blobsOnDisk, now, registrations, duUser, retErr>>

NextHome ==
    \/ \E a \in Accounts : AddUserOpen(a[1], a[2])
            /\ UNCHANGED <<txVars, clVars, auVars, quVars, mkVars>>
    \/ AddUserStep /\ UNCHANGED <<txVars, clVars, auVars, quVars, mkVars>>
    \/ AddUserCommit /\ UNCHANGED <<txVars, clVars, auVars, quVars, mkVars>>
    \/ Idle /\ acReq.pc \in {"none", "done"} /\ \E u \in Registered :
            DeleteUserList(u) /\ UNCHANGED <<txVars, otherVars>>
    \/ DeleteUserContacts /\ UNCHANGED <<txVars, otherVars>>
    \/ DeleteUserAlbums /\ UNCHANGED <<txVars, otherVars>>
    \/ DeleteUserFiles /\ UNCHANGED <<txVars, otherVars>>
    \/ DeleteUserRemoveFile /\ UNCHANGED <<txVars, otherVars>>
    \/ ProcessDies /\ UNCHANGED <<txVars, clVars, auVars, quVars, mkVars>>

SpecHome == Init /\ [][NextHome]_vars

\* The five records of the home of user u exist.
HomeComplete(u) ==
    /\ userFile[u] # NoFile
    /\ gallery[u] # NoFile
    /\ trash[u] # NoFile
    /\ manifest[u] # NoFile
    /\ contactList[u] # NoFile

-----------------------------------------------------------------------------
\* addAlbum and removeAlbum of the client step by step.  The client runs one
\* command at a time; cAl is the album list of the store, and the list a
\* call has changed in memory reaches the store with its commit.

NoCallRunning == acReq.pc \in {"none", "done"}

\* addAlbum opens the album list and puts the new album in it, in memory.
addAlbumOpen(name, aid) ==
    /\ NoCallRunning
    /\ cOps < MaxClientOps
    /\ albumList \notin cLocks
    /\ \A x \in DOMAIN cAl : cAl[x].Name # name
    /\ cLocks' = cLocks \cup {albumList}
    /\ cOps' = cOps + 1
    /\ acReq' = [pc |-> "create", op |-> "addAlbum", aid |-> aid, name |-> name, err |-> ""]
    /\ UNCHANGED <<cAl, cRemote, cFS, cLast>>

\* CreateEmptyFile of the file-set; when it fails addAlbum returns without
\* calling commit.
addAlbumCreate ==
    /\ acReq.pc = "create"
    /\ \E ioErr \in BOOLEAN :
         IF ioErr \/ cFS[albumPrefix(acReq.aid)] # NoFile
         THEN /\ acReq' = [acReq EXCEPT !.pc = "done", !.err = "CreateEmptyFile"]
              /\ UNCHANGED cFS
         ELSE /\ acReq' = [acReq EXCEPT !.pc = "commit"]
              /\ cFS' = [cFS EXCEPT ![albumPrefix(acReq.aid)] = EmptyFileSet]
    /\ UNCHANGED <<cAl, cRemote, cLocks, cLast, cOps>>

\* commit(true, nil) of addAlbum.
addAlbumCommit ==
    /\ acReq.pc = "commit"
    /\ acReq.op = "addAlbum"
    /\ cAl' = MapPut(cAl, acReq.aid,
                     [AlbumID |-> acReq.aid, Name |-> acReq.name, IsOwner |-> TRUE,
                      Permissions |-> NoPermissions, DateModified |-> now])
    /\ cLocks' = cLocks \ {albumList}
    /\ acReq' = [acReq EXCEPT !.pc = "done"]
    /\ UNCHANGED <<cRemote, cFS, cLast, cOps>>

\* removeAlbum opens the album list and deletes the album from it, in memory.
removeAlbumOpen(item) ==
    /\ NoCallRunning
    /\ cOps < MaxClientOps
    /\ item.IsDir
    /\ item.Album # NilAlbum
    /\ albumList \notin cLocks
    /\ cLocks' = cLocks \cup {albumList}
    /\ cOps' = cOps + 1
    /\ acReq' = [pc |-> "read", op |-> "removeAlbum", aid |-> item.Album.AlbumID, err |-> ""]
    /\ UNCHANGED <<cAl, cRemote, cFS, cLast>>

\* ReadDataFile of the file-set, the test that it is empty, and os.Remove of
\* it unless the album is a remote one; an error return runs the deferred
\* commit(false, &retErr).
removeAlbumRemove ==
    LET fs == cFS[albumPrefix(acReq.aid)]
        failed(e) == /\ acReq' = [acReq EXCEPT !.pc = "done", !.err = e]
                     /\ cLocks' = cLocks \ {albumList}
                     /\ UNCHANGED cFS
    IN
    /\ acReq.pc = "read"
    /\ IF fs = NoFile THEN failed("ReadDataFile")
       ELSE IF DOMAIN fs.Files # {} THEN failed("album is not empty")
       ELSE /\ acReq' = [acReq EXCEPT !.pc = "commit"]
            /\ cFS' = IF acReq.aid \in cRemote THEN cFS
                      ELSE [cFS EXCEPT ![albumPrefix(acReq.aid)] = NoFile]
            /\ UNCHANGED cLocks
    /\ UNCHANGED <<cAl, cRemote, cLast, cOps>>

\* return commit(true, nil) of removeAlbum.
removeAlbumCommit ==
    /\ acReq.pc = "commit"
    /\ acReq.op = "removeAlbum"
    /\ cAl' = MapDelete(cAl, acReq.aid)
    /\ cLocks' = cLocks \ {albumList}
    /\ acReq' = [acReq EXCEPT !.pc = "done"]
    /\ UNCHANGED <<cRemote, cFS, cLast, cOps>>

\* The client is killed between two steps of a call: its locks go with the
\* process, and the album list it had open was not written.
ClientDies ==
    /\ ~NoCallRunning
    /\ acReq' = [pc |-> "none"]
    /\ cLocks' = {}
    /\ UNCHANGED <<cAl, cRemote, cFS, cLast, cOps>>

NextAlbumSteps ==
    \/ \E name \in AlbumNames, aid \in FreshAlbumIDs :
            addAlbumOpen(name, aid) /\ UNCHANGED <<dbVars, txVars, auVars, quVars, mkVars>>
    \/ addAlbumCreate /\ UNCHANGED <<dbVars, txVars, auVars, quVars, mkVars>>
    \/ addAlbumCommit /\ UNCHANGED <<dbVars, txVars, auVars, quVars, mkVars>>
    \/ \E item \in GlobDirs(ClientStore) :
            removeAlbumOpen(item) /\ UNCHANGED <<dbVars, txVars, auVars, quVars, mkVars>>
    \/ removeAlbumRemove /\ UNCHANGED <<dbVars, txVars, auVars, quVars, mkVars>>
    \/ removeAlbumCommit /\ UNCHANGED <<dbVars, txVars, auVars, quVars, mkVars>>
    \/ ClientDies /\ UNCHANGED <<dbVars, txVars, auVars, quVars, mkVars>>
    \/ NoCallRunning /\ \E aid \in FreshAlbumIDs, name \in AlbumNames,
                            files \in SUBSET ClientFiles,
                            perms \in {p \in Permissions : ~AllowShare(p)} :
            PullAlbum(aid, name, perms, files)
    \/ NoCallRunning /\ PushAlbums

SpecAlbumSteps == Init /\ [][NextAlbumSteps]_vars

\* C40: in every state of the client store, between the steps of addAlbum
\* and removeAlbum and after either has failed, every album of the album
\* list has a file-set record.
C40_ListedAlbumsHaveFileSets == \A a \in DOMAIN cAl : cFS[albumPrefix(a)] # NoFile

====
